---- MODULE Spec2Model ----
(***************************************************************************)
(* The EVM transaction attempt builder of core/chains/evm/txmgr            *)
(* (attempts.go): NewTxAttempt, NewTxAttemptWithType, NewBumpTxAttempt,    *)
(* NewCustomTxAttempt, NewEmptyTxAttempt and the two gas validations.      *)
(*                                                                         *)
(* Every Go function is an operator of the same name.  The fee estimator   *)
(* and the keystore are external: an operator takes their answers as       *)
(* parameters (est, signer) and the actions split a call at the points     *)
(* where the Go code waits for them.  A Go pointer is a sequence of length *)
(* at most one: <<>> is nil and <<v>> points at v.                         *)
(***************************************************************************)
EXTENDS Integers, Sequences, FiniteSets, TLC

\* ------------------------------------------------------------------ bounds

\* attempts.go:164 raises 2 to the power 256; the model keeps the shape of
\* that constant and scales the exponent so that the values fit TLC's integers.
\* All uses of Wei values are order comparisons.
WordBits == 2

\* the most attempts an intent collects (the first one and its bumps) in SpecChain
MaxChain == 3

\* the juels of LINK in existence (FunctionsCoordinator)
JuelSupply == 3

\* ------------------------------------------------------------------ values

Max256BitUInt == 2 ^ WordBits

Nil == <<>>
Ptr(v) == <<v>>
Val(p) == p[1]
Opt(S) == {Nil} \cup {Ptr(v) : v \in S}

\* Wei amounts the environment can supply: small ones and the ones around
\* the end of the 256-bit domain
Wei == {1, 2, Max256BitUInt - 1, Max256BitUInt, Max256BitUInt + 1}
Floors == {1, 2}
Ceilings == {2, Max256BitUInt + 1}

Addrs == {"a1", "a2"}
ZeroAddress == "0x0"
ChainID == 1337
TxTypes == {0, 1, 2}
\* the gas limits handed to NewCustomTxAttempt or returned by the estimator
GasLimits == {7}
\* the goroutines that call the builder; Spec runs the first one alone
AllWorkers == {"w1", "w2"}
Workers == {"w1"}

\* gas.EvmFee: Legacy, DynamicFeeCap, DynamicTipCap are *assets.Wei
EvmFee(l, f, t) == [Legacy |-> l, DynamicFeeCap |-> f, DynamicTipCap |-> t]
ZeroFee == EvmFee(Nil, Nil, Nil)
Quotes == {EvmFee(l, f, t) : l \in Opt(Wei), f \in Opt(Wei), t \in Opt(Wei)}

\* gas.DynamicFee
DynamicFee(f, t) == [FeeCap |-> f, TipCap |-> t]

\* EvmFee.ValidDynamic: both fields of the dynamic pair are populated
ValidDynamic(fee) == fee.DynamicFeeCap # Nil /\ fee.DynamicTipCap # Nil

\* the pending transactions (Tx) the callers hold
ZeroTx ==
  [ID |-> 0, FromAddress |-> ZeroAddress, ToAddress |-> ZeroAddress, Value |-> 0,
   EncodedPayload |-> <<>>, FeeLimit |-> 0, Sequence |-> Nil]
Intents ==
  { [ID |-> 1, FromAddress |-> "a1", ToAddress |-> "b1", Value |-> 0,
     EncodedPayload |-> <<10>>, FeeLimit |-> 5, Sequence |-> Ptr(5)],
    [ID |-> 2, FromAddress |-> "a2", ToAddress |-> "b2", Value |-> 3,
     EncodedPayload |-> <<20, 21>>, FeeLimit |-> 6, Sequence |-> Ptr(9)] }

\* errors: the message, the values the message prints, and the messages
\* wrapped around it, outermost first
Err(m, v, b) == [msg |-> m, value |-> v, bound |-> b, wrap |-> <<>>]
NoErr == Err("", Nil, Nil)
Wrap(e, m) == [e EXCEPT !.wrap = <<m>> \o @]
IsPanic(e) == e.msg \in {"gas price missing", "gas tip cap missing", "gas fee cap missing"}

\* TxAttempt, and its zero value
ZeroAttempt ==
  [ID |-> 0, State |-> "", SignedRawTx |-> Nil, TxID |-> 0, TxFee |-> ZeroFee,
   Hash |-> Nil, TxType |-> 0, ChainSpecificFeeLimit |-> 0, Tx |-> ZeroTx,
   BroadcastBeforeBlockNum |-> Nil]
TxAttemptInProgress == "in_progress"

\* ------------------------------------------------------------- validation

\* validateLegacyGas with the ceiling taken as exclusive
validateLegacyGas_ExclusiveMax(kse, minGasPriceWei, gasPrice, gasLimit, etx) ==
  IF gasPrice = Nil THEN Err("gas price missing", Nil, Nil)
  ELSE LET max == kse.PriceMaxKey[etx.FromAddress]
           min == minGasPriceWei
       IN IF Val(gasPrice) >= max
          THEN Err("gas price would exceed max configured gas price", gasPrice, Ptr(max))
          ELSE IF Val(gasPrice) < min
          THEN Err("gas price is below min configured gas price", gasPrice, Ptr(min))
          ELSE NoErr

\* attempts.go:254-267.  The result is NoErr, an error or a panic.
validateLegacyGas(kse, minGasPriceWei, gasPrice, gasLimit, etx) ==
  IF gasPrice = Nil THEN Err("gas price missing", Nil, Nil)
  ELSE LET max == kse.PriceMaxKey[etx.FromAddress]
           min == minGasPriceWei
       IN IF Val(gasPrice) > max
          THEN Err("gas price would exceed max configured gas price", gasPrice, Ptr(max))
          ELSE IF Val(gasPrice) < min
          THEN Err("gas price is below min configured gas price", gasPrice, Ptr(min))
          ELSE NoErr

\* validateDynamicFeeGas letting a fee cap above the key's ceiling through
validateDynamicFeeGas_NoCeiling(kse, tipCapMinimum, fee, gasLimit, etx) ==
  LET gasTipCap == fee.TipCap
      gasFeeCap == fee.FeeCap
  IN IF gasTipCap = Nil THEN Err("gas tip cap missing", Nil, Nil)
     ELSE IF gasFeeCap = Nil THEN Err("gas fee cap missing", Nil, Nil)
     ELSE IF Val(gasFeeCap) < Val(gasTipCap)
     THEN Err("gas fee cap must be greater than or equal to gas tip cap", gasFeeCap, gasTipCap)
     ELSE IF Val(gasTipCap) < tipCapMinimum
     THEN Err("gas tip cap must be at least tipCapMinimum", gasTipCap, Ptr(tipCapMinimum))
     ELSE NoErr

\* validateDynamicFeeGas without the comparison of the fee cap with the tip cap
validateDynamicFeeGas_NoTipCheck(kse, tipCapMinimum, fee, gasLimit, etx) ==
  LET gasTipCap == fee.TipCap
      gasFeeCap == fee.FeeCap
  IN IF gasTipCap = Nil THEN Err("gas tip cap missing", Nil, Nil)
     ELSE IF gasFeeCap = Nil THEN Err("gas fee cap missing", Nil, Nil)
     ELSE IF Val(gasFeeCap) > Max256BitUInt
     THEN Err("impossibly large fee cap", gasFeeCap, Nil)
     ELSE IF Val(gasTipCap) > Max256BitUInt
     THEN Err("impossibly large tip cap", gasTipCap, Nil)
     ELSE LET max == kse.PriceMaxKey[etx.FromAddress]
              minTip == tipCapMinimum
          IN IF Val(gasFeeCap) > max
             THEN Err("gas fee cap would exceed max configured gas price", gasFeeCap, Ptr(max))
             ELSE IF Val(gasTipCap) < minTip
             THEN Err("gas tip cap is below min configured gas tip", gasTipCap, Ptr(minTip))
             ELSE NoErr

\* attempts.go:172-205
validateDynamicFeeGas(kse, tipCapMinimum, fee, gasLimit, etx) ==
  LET gasTipCap == fee.TipCap
      gasFeeCap == fee.FeeCap
  IN IF gasTipCap = Nil THEN Err("gas tip cap missing", Nil, Nil)
     ELSE IF gasFeeCap = Nil THEN Err("gas fee cap missing", Nil, Nil)
     ELSE IF Val(gasFeeCap) > Max256BitUInt
     THEN Err("impossibly large fee cap", gasFeeCap, Nil)
     ELSE IF Val(gasTipCap) > Max256BitUInt
     THEN Err("impossibly large tip cap", gasTipCap, Nil)
     ELSE IF Val(gasFeeCap) < Val(gasTipCap)
     THEN Err("gas fee cap must be greater than or equal to gas tip cap", gasFeeCap, gasTipCap)
     ELSE LET max == kse.PriceMaxKey[etx.FromAddress]
              minTip == tipCapMinimum
          IN IF Val(gasFeeCap) > max
             THEN Err("gas fee cap would exceed max configured gas price", gasFeeCap, Ptr(max))
             ELSE IF Val(gasTipCap) < minTip
             THEN Err("gas tip cap is below min configured gas tip", gasTipCap, Ptr(minTip))
             ELSE NoErr

\* ----------------------------------------------------------- transactions

\* the fields of go-ethereum's types.LegacyTx and types.DynamicFeeTx
EthTx(type, chainID, nonce, to, value, gas, gasPrice, gasTipCap, gasFeeCap, data) ==
  [Type |-> type, ChainID |-> chainID, Nonce |-> nonce, To |-> to, Value |-> value,
   Gas |-> gas, GasPrice |-> gasPrice, GasTipCap |-> gasTipCap, GasFeeCap |-> gasFeeCap,
   Data |-> data]

\* attempts.go:284-293
newLegacyTransaction(nonce, to, value, gasLimit, gasPrice, data) ==
  EthTx(0, Nil, nonce, to, value, gasLimit, gasPrice, Nil, Nil, data)

\* newDynamicFeeTransaction with the tip cap and the fee cap in each other's field
newDynamicFeeTransaction_Swapped(nonce, to, value, gasLimit, chainID, gasTipCap, gasFeeCap, data) ==
  EthTx(2, Ptr(chainID), nonce, to, value, gasLimit, Nil, gasFeeCap, gasTipCap, data)

\* attempts.go:207-218
newDynamicFeeTransaction(nonce, to, value, gasLimit, chainID, gasTipCap, gasFeeCap, data) ==
  EthTx(2, Ptr(chainID), nonce, to, value, gasLimit, Nil, gasTipCap, gasFeeCap, data)

\* attempts.go:295-306.  signer is the keystore's answer (TRUE: it signed).
\* The signed bytes are the RLP encoding of the transaction signed for the
\* address and chain id, the hash is the hash of those.
SignTx(address, tx, signer) ==
  IF ~signer
  THEN [hash |-> Nil, signedTxBytes |-> Nil, err |-> Wrap(Err("keystore", Nil, Nil), "SignTx failed")]
  ELSE [hash |-> Ptr([hashOf |-> tx, by |-> address, chain |-> ChainID]),
        signedTxBytes |-> Ptr([rlpOf |-> tx, by |-> address, chain |-> ChainID]),
        err |-> NoErr]

\* what one run of a builder function did and returned: the values it
\* returns, the validations it ran (their results, in order) and the
\* transactions it handed to the keystore
\* The exported functions also return the fee, the fee limit and the
\* retryable flag, and may call the estimator.
Result(attempt, fee, feeLimit, retryable, err, estCalls, validations, signCalls) ==
  [attempt |-> attempt, fee |-> fee, feeLimit |-> feeLimit, retryable |-> retryable,
   err |-> err, estCalls |-> estCalls, validations |-> validations,
   signCalls |-> signCalls]
\* the unexported ones return the attempt and the error alone
Outcome(attempt, err, validations, signCalls) ==
  Result(attempt, ZeroFee, 0, FALSE, err, <<>>, validations, signCalls)

SignCall(address, tx) == [address |-> address, tx |-> tx]

\* newSignedAttempt filling in the attempt before it asks the keystore, and
\* returning it as it is when signing fails
newSignedAttempt_PartlyBuilt(etx, tx, signer) ==
  LET s == SignTx(etx.FromAddress, tx, signer) IN
  IF s.err # NoErr
  THEN Outcome([ZeroAttempt EXCEPT !.State = TxAttemptInProgress,
                                   !.TxID = etx.ID,
                                   !.Tx = etx],
               Wrap(s.err, "error using account to sign transaction"),
               <<>>, <<SignCall(etx.FromAddress, tx)>>)
  ELSE Outcome([ZeroAttempt EXCEPT !.State = TxAttemptInProgress,
                                   !.SignedRawTx = s.signedTxBytes,
                                   !.TxID = etx.ID,
                                   !.Tx = etx,
                                   !.Hash = s.hash],
               NoErr, <<>>, <<SignCall(etx.FromAddress, tx)>>)

\* attempts.go:269-282
newSignedAttempt(etx, tx, signer) ==
  LET s == SignTx(etx.FromAddress, tx, signer) IN
  IF s.err # NoErr
  THEN Outcome(ZeroAttempt, Wrap(s.err, "error using account to sign transaction"),
               <<>>, <<SignCall(etx.FromAddress, tx)>>)
  ELSE Outcome([ZeroAttempt EXCEPT !.State = TxAttemptInProgress,
                                   !.SignedRawTx = s.signedTxBytes,
                                   !.TxID = etx.ID,
                                   !.Tx = etx,
                                   !.Hash = s.hash],
               NoErr, <<>>, <<SignCall(etx.FromAddress, tx)>>)

\* newLegacyAttempt recording the intent's FeeLimit in place of the gas
\* limit it was given
newLegacyAttempt_IntentFeeLimit(cfg, etx, gasPrice, gasLimit, signer) ==
  LET verr == validateLegacyGas(cfg, cfg.PriceMin, gasPrice, gasLimit, etx) IN
  IF IsPanic(verr) THEN Outcome(ZeroAttempt, verr, <<verr>>, <<>>)
  ELSE IF verr # NoErr
  THEN Outcome(ZeroAttempt, Wrap(verr, "error validating gas"), <<verr>>, <<>>)
  ELSE LET tx == newLegacyTransaction(Val(etx.Sequence), etx.ToAddress, etx.Value,
                                      gasLimit, gasPrice, etx.EncodedPayload)
           s == SignTx(etx.FromAddress, tx, signer)
       IN IF s.err # NoErr
          THEN Outcome(ZeroAttempt, Wrap(s.err, "error using account to sign transaction"),
                       <<verr>>, <<SignCall(etx.FromAddress, tx)>>)
          ELSE Outcome([ZeroAttempt EXCEPT !.State = TxAttemptInProgress,
                                           !.SignedRawTx = s.signedTxBytes,
                                           !.TxID = etx.ID,
                                           !.TxFee = EvmFee(gasPrice, Nil, Nil),
                                           !.Hash = s.hash,
                                           !.TxType = 0,
                                           !.ChainSpecificFeeLimit = etx.FeeLimit,
                                           !.Tx = etx],
                       NoErr, <<verr>>, <<SignCall(etx.FromAddress, tx)>>)

\* attempts.go:220-250
newLegacyAttempt(cfg, etx, gasPrice, gasLimit, signer) ==
  LET verr == validateLegacyGas(cfg, cfg.PriceMin, gasPrice, gasLimit, etx) IN
  IF IsPanic(verr) THEN Outcome(ZeroAttempt, verr, <<verr>>, <<>>)
  ELSE IF verr # NoErr
  THEN Outcome(ZeroAttempt, Wrap(verr, "error validating gas"), <<verr>>, <<>>)
  ELSE LET tx == newLegacyTransaction(Val(etx.Sequence), etx.ToAddress, etx.Value,
                                      gasLimit, gasPrice, etx.EncodedPayload)
           s == SignTx(etx.FromAddress, tx, signer)
       IN IF s.err # NoErr
          THEN Outcome(ZeroAttempt, Wrap(s.err, "error using account to sign transaction"),
                       <<verr>>, <<SignCall(etx.FromAddress, tx)>>)
          ELSE Outcome([ZeroAttempt EXCEPT !.State = TxAttemptInProgress,
                                           !.SignedRawTx = s.signedTxBytes,
                                           !.TxID = etx.ID,
                                           !.TxFee = EvmFee(gasPrice, Nil, Nil),
                                           !.Hash = s.hash,
                                           !.TxType = 0,
                                           !.ChainSpecificFeeLimit = gasLimit,
                                           !.Tx = etx],
                       NoErr, <<verr>>, <<SignCall(etx.FromAddress, tx)>>)

\* attempts.go:135-162
newDynamicFeeAttempt(cfg, etx, fee, gasLimit, signer) ==
  LET verr == validateDynamicFeeGas(cfg, cfg.TipCapMin, fee, gasLimit, etx) IN
  IF IsPanic(verr) THEN Outcome(ZeroAttempt, verr, <<verr>>, <<>>)
  ELSE IF verr # NoErr
  THEN Outcome(ZeroAttempt, Wrap(verr, "error validating gas"), <<verr>>, <<>>)
  ELSE LET tx == newDynamicFeeTransaction(Val(etx.Sequence), etx.ToAddress, etx.Value,
                                          gasLimit, ChainID, fee.TipCap, fee.FeeCap,
                                          etx.EncodedPayload)
           r == newSignedAttempt(etx, tx, signer)
       IN IF r.err # NoErr
          THEN [r EXCEPT !.validations = <<verr>>]
          ELSE [r EXCEPT !.attempt.TxFee = EvmFee(Nil, fee.FeeCap, fee.TipCap),
                         !.attempt.ChainSpecificFeeLimit = gasLimit,
                         !.attempt.TxType = 2,
                         !.validations = <<verr>>]

\* ------------------------------------------------------------ the builder

\* NewCustomTxAttempt returning retryable = true from its two fee checks
NewCustomTxAttempt_RetryableMismatch(cfg, etx, fee, gasLimit, txType, signer) ==
  CASE txType = 0 ->
         IF fee.Legacy = Nil
         THEN Result(ZeroAttempt, ZeroFee, 0, TRUE,
                     Err("type 0 transaction but estimator did not return legacy fee bump",
                         Ptr(ZeroAttempt.ID), Nil),
                     <<>>, <<>>, <<>>)
         ELSE LET r == newLegacyAttempt(cfg, etx, fee.Legacy, gasLimit, signer)
              IN [r EXCEPT !.retryable = TRUE]
    [] txType = 2 ->
         IF ~ValidDynamic(fee)
         THEN Result(ZeroAttempt, ZeroFee, 0, TRUE,
                     Err("type 2 transaction but estimator did not return dynamic fee bump",
                         Ptr(ZeroAttempt.ID), Nil),
                     <<>>, <<>>, <<>>)
         ELSE LET r == newDynamicFeeAttempt(cfg, etx,
                                            DynamicFee(fee.DynamicFeeCap, fee.DynamicTipCap),
                                            gasLimit, signer)
              IN [r EXCEPT !.retryable = TRUE]
    [] OTHER ->
         Result(ZeroAttempt, ZeroFee, 0, FALSE,
                Err("invariant violation: unrecognised transaction type",
                    Ptr(ZeroAttempt.ID), Ptr(ZeroAttempt.TxType)),
                <<>>, <<>>, <<>>)

\* NewCustomTxAttempt without the default case: every type that is not
\* legacy is built as a dynamic-fee transaction
NewCustomTxAttempt_NoDefault(cfg, etx, fee, gasLimit, txType, signer) ==
  CASE txType = 0 ->
         IF fee.Legacy = Nil
         THEN Result(ZeroAttempt, ZeroFee, 0, FALSE,
                     Err("type 0 transaction but estimator did not return legacy fee bump",
                         Ptr(ZeroAttempt.ID), Nil),
                     <<>>, <<>>, <<>>)
         ELSE LET r == newLegacyAttempt(cfg, etx, fee.Legacy, gasLimit, signer)
              IN [r EXCEPT !.retryable = TRUE]
    [] OTHER ->
         IF ~ValidDynamic(fee)
         THEN Result(ZeroAttempt, ZeroFee, 0, FALSE,
                     Err("type 2 transaction but estimator did not return dynamic fee bump",
                         Ptr(ZeroAttempt.ID), Nil),
                     <<>>, <<>>, <<>>)
         ELSE LET r == newDynamicFeeAttempt(cfg, etx,
                                            DynamicFee(fee.DynamicFeeCap, fee.DynamicTipCap),
                                            gasLimit, signer)
              IN [r EXCEPT !.retryable = TRUE]

\* NewCustomTxAttempt going on to the attempt without looking at the quote
NewCustomTxAttempt_NoFeeCheck(cfg, etx, fee, gasLimit, txType, signer) ==
  CASE txType = 0 ->
         LET r == newLegacyAttempt(cfg, etx, fee.Legacy, gasLimit, signer)
         IN [r EXCEPT !.retryable = TRUE]
    [] txType = 2 ->
         LET r == newDynamicFeeAttempt(cfg, etx,
                                       DynamicFee(fee.DynamicFeeCap, fee.DynamicTipCap),
                                       gasLimit, signer)
         IN [r EXCEPT !.retryable = TRUE]
    [] OTHER ->
         Result(ZeroAttempt, ZeroFee, 0, FALSE,
                Err("invariant violation: unrecognised transaction type",
                    Ptr(ZeroAttempt.ID), Ptr(ZeroAttempt.TxType)),
                <<>>, <<>>, <<>>)

\* NewCustomTxAttempt rejecting every quote that carries anything of the
\* variant that was not asked for
NewCustomTxAttempt_ExactlyOne(cfg, etx, fee, gasLimit, txType, signer) ==
  CASE txType = 0 ->
         IF fee.Legacy = Nil \/ fee.DynamicFeeCap # Nil \/ fee.DynamicTipCap # Nil
         THEN Result(ZeroAttempt, ZeroFee, 0, FALSE,
                     Err("type 0 transaction but estimator did not return legacy fee bump",
                         Ptr(ZeroAttempt.ID), Nil),
                     <<>>, <<>>, <<>>)
         ELSE LET r == newLegacyAttempt(cfg, etx, fee.Legacy, gasLimit, signer)
              IN [r EXCEPT !.retryable = TRUE]
    [] txType = 2 ->
         IF ~ValidDynamic(fee) \/ fee.Legacy # Nil
         THEN Result(ZeroAttempt, ZeroFee, 0, FALSE,
                     Err("type 2 transaction but estimator did not return dynamic fee bump",
                         Ptr(ZeroAttempt.ID), Nil),
                     <<>>, <<>>, <<>>)
         ELSE LET r == newDynamicFeeAttempt(cfg, etx,
                                            DynamicFee(fee.DynamicFeeCap, fee.DynamicTipCap),
                                            gasLimit, signer)
              IN [r EXCEPT !.retryable = TRUE]
    [] OTHER ->
         Result(ZeroAttempt, ZeroFee, 0, FALSE,
                Err("invariant violation: unrecognised transaction type",
                    Ptr(ZeroAttempt.ID), Ptr(ZeroAttempt.TxType)),
                <<>>, <<>>, <<>>)

\* attempts.go:84-111
NewCustomTxAttempt(cfg, etx, fee, gasLimit, txType, signer) ==
  CASE txType = 0 ->
         IF fee.Legacy = Nil
         THEN Result(ZeroAttempt, ZeroFee, 0, FALSE,
                     Err("type 0 transaction but estimator did not return legacy fee bump",
                         Ptr(ZeroAttempt.ID), Nil),
                     <<>>, <<>>, <<>>)
         ELSE LET r == newLegacyAttempt(cfg, etx, fee.Legacy, gasLimit, signer)
              IN [r EXCEPT !.retryable = TRUE]
    [] txType = 2 ->
         IF ~ValidDynamic(fee)
         THEN Result(ZeroAttempt, ZeroFee, 0, FALSE,
                     Err("type 2 transaction but estimator did not return dynamic fee bump",
                         Ptr(ZeroAttempt.ID), Nil),
                     <<>>, <<>>, <<>>)
         ELSE LET r == newDynamicFeeAttempt(cfg, etx,
                                            DynamicFee(fee.DynamicFeeCap, fee.DynamicTipCap),
                                            gasLimit, signer)
              IN [r EXCEPT !.retryable = TRUE]
    [] OTHER ->
         Result(ZeroAttempt, ZeroFee, 0, FALSE,
                Err("invariant violation: unrecognised transaction type",
                    Ptr(ZeroAttempt.ID), Ptr(ZeroAttempt.TxType)),
                <<>>, <<>>, <<>>)

\* the arguments of one call of the estimator (GetFee or BumpFee)
EstCall(op, calldata, originalFee, feeLimit, maxFeePrice, attempts) ==
  [op |-> op, calldata |-> calldata, originalFee |-> originalFee, feeLimit |-> feeLimit,
   maxFeePrice |-> maxFeePrice, attempts |-> attempts]

\* NewTxAttemptWithType reporting an estimator error as not retryable
NewTxAttemptWithType_FatalEstimator(cfg, etx, txType, est, signer) ==
  LET keySpecificMaxGasPriceWei == cfg.PriceMaxKey[etx.FromAddress]
      call == EstCall("GetFee", etx.EncodedPayload, ZeroFee, etx.FeeLimit,
                      keySpecificMaxGasPriceWei, <<>>)
  IN IF est.err # NoErr
     THEN Result(ZeroAttempt, est.fee, est.feeLimit, FALSE, Wrap(est.err, "failed to get fee"),
                 <<call>>, <<>>, <<>>)
     ELSE LET r == NewCustomTxAttempt(cfg, etx, est.fee, est.feeLimit, txType, signer)
          IN [r EXCEPT !.fee = est.fee, !.feeLimit = est.feeLimit, !.estCalls = <<call>>]

\* attempts.go:57-66.  est is the estimator's answer (fee, feeLimit, err).
NewTxAttemptWithType(cfg, etx, txType, est, signer) ==
  LET keySpecificMaxGasPriceWei == cfg.PriceMaxKey[etx.FromAddress]
      call == EstCall("GetFee", etx.EncodedPayload, ZeroFee, etx.FeeLimit,
                      keySpecificMaxGasPriceWei, <<>>)
  IN IF est.err # NoErr
     THEN Result(ZeroAttempt, est.fee, est.feeLimit, TRUE, Wrap(est.err, "failed to get fee"),
                 <<call>>, <<>>, <<>>)
     ELSE LET r == NewCustomTxAttempt(cfg, etx, est.fee, est.feeLimit, txType, signer)
          IN [r EXCEPT !.fee = est.fee, !.feeLimit = est.feeLimit, !.estCalls = <<call>>]

\* NewTxAttempt asking for a legacy attempt whatever EIP1559DynamicFees says
NewTxAttempt_AlwaysLegacy(cfg, etx, est, signer) ==
  NewTxAttemptWithType(cfg, etx, 0, est, signer)

\* attempts.go:47-53
NewTxAttempt(cfg, etx, est, signer) ==
  LET txType == IF cfg.EIP1559DynamicFees THEN 2 ELSE 0
  IN NewTxAttemptWithType(cfg, etx, txType, est, signer)

\* newEvmPriorAttempts listing the attempts newest first
newEvmPriorAttempts_Reversed(attempts) ==
  [i \in 1 .. Len(attempts) |->
     [ChainSpecificFeeLimit |-> attempts[Len(attempts) + 1 - i].ChainSpecificFeeLimit,
      BroadcastBeforeBlockNum |-> attempts[Len(attempts) + 1 - i].BroadcastBeforeBlockNum,
      TxHash |-> attempts[Len(attempts) + 1 - i].Hash,
      TxType |-> attempts[Len(attempts) + 1 - i].TxType,
      GasPrice |-> attempts[Len(attempts) + 1 - i].TxFee.Legacy,
      DynamicFee |-> DynamicFee(attempts[Len(attempts) + 1 - i].TxFee.DynamicFeeCap,
                                attempts[Len(attempts) + 1 - i].TxFee.DynamicTipCap)]]

\* attempts.go:308-324
newEvmPriorAttempts(attempts) ==
  [i \in 1 .. Len(attempts) |->
     [ChainSpecificFeeLimit |-> attempts[i].ChainSpecificFeeLimit,
      BroadcastBeforeBlockNum |-> attempts[i].BroadcastBeforeBlockNum,
      TxHash |-> attempts[i].Hash,
      TxType |-> attempts[i].TxType,
      GasPrice |-> attempts[i].TxFee.Legacy,
      DynamicFee |-> DynamicFee(attempts[i].TxFee.DynamicFeeCap,
                                attempts[i].TxFee.DynamicTipCap)]]

\* NewBumpTxAttempt treating the estimator's report that the bump does not
\* get over the ceiling as fatal
NewBumpTxAttempt_FatalBumpLimit(cfg, etx, previousAttempt, priorAttempts, est, signer) ==
  LET keySpecificMaxGasPriceWei == cfg.PriceMaxKey[etx.FromAddress]
      call == EstCall("BumpFee", <<>>, previousAttempt.TxFee, etx.FeeLimit,
                      keySpecificMaxGasPriceWei, newEvmPriorAttempts(priorAttempts))
  IN IF est.err # NoErr
     THEN Result(ZeroAttempt, est.fee, est.feeLimit,
                 est.err.msg # "bump attempt exceeds max configured price",
                 Wrap(est.err, "failed to bump fee"), <<call>>, <<>>, <<>>)
     ELSE LET r == NewCustomTxAttempt(cfg, etx, est.fee, est.feeLimit,
                                      previousAttempt.TxType, signer)
          IN [r EXCEPT !.fee = est.fee, !.feeLimit = est.feeLimit, !.estCalls = <<call>>]

\* NewBumpTxAttempt choosing the type as NewTxAttempt does, from the
\* configuration at the time of the bump
NewBumpTxAttempt_TypeFromConfig(cfg, etx, previousAttempt, priorAttempts, est, signer) ==
  LET keySpecificMaxGasPriceWei == cfg.PriceMaxKey[etx.FromAddress]
      call == EstCall("BumpFee", <<>>, previousAttempt.TxFee, etx.FeeLimit,
                      keySpecificMaxGasPriceWei, newEvmPriorAttempts(priorAttempts))
  IN IF est.err # NoErr
     THEN Result(ZeroAttempt, est.fee, est.feeLimit, TRUE, Wrap(est.err, "failed to bump fee"),
                 <<call>>, <<>>, <<>>)
     ELSE LET r == NewCustomTxAttempt(cfg, etx, est.fee, est.feeLimit,
                                      IF cfg.EIP1559DynamicFees THEN 2 ELSE 0, signer)
          IN [r EXCEPT !.fee = est.fee, !.feeLimit = est.feeLimit, !.estCalls = <<call>>]

\* attempts.go:70-80
NewBumpTxAttempt(cfg, etx, previousAttempt, priorAttempts, est, signer) ==
  LET keySpecificMaxGasPriceWei == cfg.PriceMaxKey[etx.FromAddress]
      call == EstCall("BumpFee", <<>>, previousAttempt.TxFee, etx.FeeLimit,
                      keySpecificMaxGasPriceWei, newEvmPriorAttempts(priorAttempts))
  IN IF est.err # NoErr
     THEN Result(ZeroAttempt, est.fee, est.feeLimit, TRUE, Wrap(est.err, "failed to bump fee"),
                 <<call>>, <<>>, <<>>)
     ELSE LET r == NewCustomTxAttempt(cfg, etx, est.fee, est.feeLimit,
                                      previousAttempt.TxType, signer)
          IN [r EXCEPT !.fee = est.fee, !.feeLimit = est.feeLimit, !.estCalls = <<call>>]

\* NewEmptyTxAttempt signing without looking for the legacy price first
NewEmptyTxAttempt_NoLegacyCheck(nonce, feeLimit, fee, fromAddress, signer) ==
  LET tx == EthTx(0, Nil, nonce, fromAddress, 0, feeLimit, fee.Legacy, Nil, Nil, <<>>)
      s == SignTx(fromAddress, tx, signer)
  IN IF s.err # NoErr
     THEN Result(ZeroAttempt, ZeroFee, 0, FALSE,
                 Wrap(s.err, "error using account to sign empty transaction"),
                 <<>>, <<>>, <<SignCall(fromAddress, tx)>>)
     ELSE Result([ZeroAttempt EXCEPT !.SignedRawTx = s.signedTxBytes, !.Hash = s.hash],
                 ZeroFee, 0, FALSE, NoErr, <<>>, <<>>, <<SignCall(fromAddress, tx)>>)

\* attempts.go:114-133
NewEmptyTxAttempt(nonce, feeLimit, fee, fromAddress, signer) ==
  LET value == 0
      payload == <<>>
  IN IF fee.Legacy = Nil
     THEN Result(ZeroAttempt, ZeroFee, 0, FALSE,
                 Err("NewEmptyTranscation: legacy fee cannot be nil", Nil, Nil),
                 <<>>, <<>>, <<>>)
     ELSE LET tx == EthTx(0, Nil, nonce, fromAddress, value, feeLimit, fee.Legacy, Nil, Nil, payload)
              s == SignTx(fromAddress, tx, signer)
          IN IF s.err # NoErr
             THEN Result(ZeroAttempt, ZeroFee, 0, FALSE,
                         Wrap(s.err, "error using account to sign empty transaction"),
                         <<>>, <<>>, <<SignCall(fromAddress, tx)>>)
             ELSE Result([ZeroAttempt EXCEPT !.SignedRawTx = s.signedTxBytes,
                                             !.Hash = s.hash],
                         ZeroFee, 0, FALSE, NoErr,
                         <<>>, <<>>, <<SignCall(fromAddress, tx)>>)

\* ------------------------------------------------- FunctionsCoordinator
\* FunctionsCoordinator.sol.  Amounts are juels of LINK (uint96).  No more
\* than JuelSupply juels exist, far fewer than a uint96 holds
\* (FunctionsCoordinator.sol:302), so the checked additions never overflow.

Router == "router"
Owner == "owner"
Accounts == {"t1", "t2", Router, Owner}
\* the transmitter lists OCR2Base.setConfig accepts: never empty, no repeats
TransmitterLists == {<<"t1">>, <<"t2">>, <<"t1", "t2">>}

\* FunctionsResponse.FulfillResult
FULFILLED == "FULFILLED"
USER_CALLBACK_ERROR == "USER_CALLBACK_ERROR"
INVALID_REQUEST_ID == "INVALID_REQUEST_ID"
FulfillResults == {FULFILLED, USER_CALLBACK_ERROR, INVALID_REQUEST_ID}

\* Config, the fields billing reads
CoordinatorConfig ==
  [donFee |-> 1, maxSupportedRequestDataVersion |-> 1,
   gasOverheadBeforeCallback |-> 1, gasOverheadAfterCallback |-> 1,
   requestTimeoutSeconds |-> 300]

\* FunctionsResponse.RequestMeta, the fields _startBilling reads
RequestMeta(initiatedRequests, dataVersion, availableBalance) ==
  [requestingContract |-> "client", subscriptionId |-> 7,
   initiatedRequests |-> initiatedRequests, dataVersion |-> dataVersion,
   callbackGasLimit |-> 100, adminFee |-> 0, availableBalance |-> availableBalance,
   data |-> <<1>>]
Requests ==
  {RequestMeta(n, 1, 9) : n \in {0, 1}} \cup {RequestMeta(0, 2, 9), RequestMeta(0, 1, 0)}

\* keccak256(abi.encode(...)) of _startBilling: the request id is the tuple
\* of what is hashed
RequestIdOf(request, estimatedTotalCostJuels, timeoutTimestamp) ==
  [client |-> request.requestingContract, subscriptionId |-> request.subscriptionId,
   nonce |-> request.initiatedRequests + 1, dataVersion |-> request.dataVersion,
   callbackGasLimit |-> request.callbackGasLimit,
   estimatedTotalCostJuels |-> estimatedTotalCostJuels,
   timeoutTimestamp |-> timeoutTimestamp]
\* _calculateCostEstimate and block.timestamp, as the chain gives them
CostEstimate == 2
BlockTimestamp == 1000
RequestIds ==
  {RequestIdOf(r, CostEstimate + CoordinatorConfig.donFee + r.adminFee,
               BlockTimestamp + CoordinatorConfig.requestTimeoutSeconds) :
     r \in {q \in Requests : q.dataVersion = 1}}

\* FunctionsResponse.Commitment
Commitment(request, estimatedTotalCostJuels, timeoutTimestamp, requestId, donFee, config) ==
  [adminFee |-> request.adminFee, coordinator |-> "this",
   client |-> request.requestingContract, subscriptionId |-> request.subscriptionId,
   callbackGasLimit |-> request.callbackGasLimit,
   estimatedTotalCostJuels |-> estimatedTotalCostJuels,
   timeoutTimestamp |-> timeoutTimestamp, requestId |-> requestId, donFee |-> donFee,
   gasOverheadBeforeCallback |-> config.gasOverheadBeforeCallback,
   gasOverheadAfterCallback |-> config.gasOverheadAfterCallback]

\* the storage after the constructor: mappings hold zero for every key
NewCoordinator ==
  [s_requestCommitments |-> [id \in RequestIds |-> Nil],
   s_withdrawableTokens |-> [a \in Accounts |-> 0],
   s_feePool |-> 0,
   s_transmitters |-> <<>>,
   s_config |-> CoordinatorConfig]

\* how a transaction ends: the storage it leaves, the error it reverted with
\* ("" if it did not revert; a revert leaves the storage as it was), and the
\* payments it asked the router for
Ok(c, paid) == [state |-> c, revert |-> "", paid |-> paid]
Revert(c, e) == [state |-> c, revert |-> e, paid |-> <<>>]

TimesIn(a, transmitters) == Cardinality({i \in DOMAIN transmitters : transmitters[i] = a})

\* _disperseFeePool keeping the whole pool for the first transmitter
disperseFeePool_FirstTakesAll(c) ==
  IF c.s_feePool = 0 THEN Ok(c, <<>>)
  ELSE IF Len(c.s_transmitters) = 0 THEN Revert(c, "NoTransmittersSet")
  ELSE Ok([c EXCEPT !.s_withdrawableTokens[c.s_transmitters[1]] = @ + c.s_feePool,
                    !.s_feePool = 0], <<>>)

\* FunctionsCoordinator.sol:516-534
disperseFeePool(c) ==
  IF c.s_feePool = 0 THEN Ok(c, <<>>)
  ELSE LET transmitters == c.s_transmitters
           numberOfTransmitters == Len(transmitters)
       IN IF numberOfTransmitters = 0 THEN Revert(c, "NoTransmittersSet")
          ELSE LET feePoolShare == c.s_feePool \div numberOfTransmitters
               IN Ok([c EXCEPT
                        !.s_withdrawableTokens =
                           [a \in Accounts |-> @[a] + feePoolShare * TimesIn(a, transmitters)],
                        !.s_feePool = @ - feePoolShare * numberOfTransmitters],
                     <<>>)

\* FunctionsCoordinator.sol:485-495.  The router's oracleWithdraw is taken
\* to pay.
oracleWithdraw(c, sender, recipient, amount) ==
  LET d == disperseFeePool(c) IN
  IF d.revert # "" THEN Revert(c, d.revert)
  ELSE IF amount # 0 /\ d.state.s_withdrawableTokens[sender] < amount
  THEN Revert(c, "InsufficientBalance")
  ELSE LET amt == IF amount = 0 THEN d.state.s_withdrawableTokens[sender] ELSE amount
       IN Ok([d.state EXCEPT !.s_withdrawableTokens[sender] = @ - amt],
             <<[to |-> recipient, amount |-> amt]>>)

\* the loop of oracleWithdrawAll over transmitters[i ..]
RECURSIVE WithdrawEach(_, _, _)
WithdrawEach(r, transmitters, i) ==
  IF i > Len(transmitters) THEN r
  ELSE LET balance == r.state.s_withdrawableTokens[transmitters[i]] IN
       IF balance > 0
       THEN WithdrawEach(Ok([r.state EXCEPT !.s_withdrawableTokens[transmitters[i]] = 0],
                            Append(r.paid, [to |-> transmitters[i], amount |-> balance])),
                         transmitters, i + 1)
       ELSE WithdrawEach(r, transmitters, i + 1)

\* FunctionsCoordinator.sol:499-512
oracleWithdrawAll(c, sender) ==
  IF sender # Owner THEN Revert(c, "Only callable by owner")
  ELSE LET d == disperseFeePool(c) IN
       IF d.revert # "" THEN Revert(c, d.revert)
       ELSE WithdrawEach(d, d.state.s_transmitters, 1)

\* FunctionsCoordinator.sol:352-406.  costEstimate is what
\* _calculateCostEstimate returns, timestamp is block.timestamp.
startBilling(c, request, costEstimate, timestamp) ==
  LET config == c.s_config IN
  IF request.dataVersion > config.maxSupportedRequestDataVersion
  THEN Revert(c, "UnsupportedRequestDataVersion")
  ELSE LET donFee == config.donFee
           estimatedTotalCostJuels == costEstimate + donFee + request.adminFee
       IN IF request.availableBalance < estimatedTotalCostJuels
          THEN Revert(c, "InsufficientBalance")
          ELSE LET timeoutTimestamp == timestamp + config.requestTimeoutSeconds
                   requestId == RequestIdOf(request, estimatedTotalCostJuels, timeoutTimestamp)
                   commitment == Commitment(request, estimatedTotalCostJuels, timeoutTimestamp,
                                            requestId, donFee, config)
               IN Ok([c EXCEPT !.s_requestCommitments[requestId] = Ptr(commitment)], <<>>)

\* FunctionsCoordinator.sol:175-195 with the modifier onlyRouter (126-131)
startRequest(c, sender, request, costEstimate, timestamp) ==
  IF sender # Router THEN Revert(c, "OnlyCallableByRouter")
  ELSE startBilling(c, request, costEstimate, timestamp)

\* FunctionsCoordinator.sol:474-478 with the modifier onlyRouter (126-131)
deleteCommitment(c, sender, requestId) ==
  IF sender # Router THEN Revert(c, "OnlyCallableByRouter")
  ELSE Ok([c EXCEPT !.s_requestCommitments[requestId] = Nil], <<>>)

\* one fulfilment of a report: the request id, the donFee of the commitment
\* in its onchainMetadata, the gas overhead in juels that _getJuelsFromWei
\* gives, and the router's answer to fulfill (resultCode, callbackCostJuels)
Fulfilment(requestId, donFee, gasOverheadJuels, resultCode, callbackCostJuels) ==
  [requestId |-> requestId, donFee |-> donFee, gasOverheadJuels |-> gasOverheadJuels,
   resultCode |-> resultCode, callbackCostJuels |-> callbackCostJuels]

\* _fulfillAndBill dropping the commitment whatever the router answered
fulfillAndBill_AlwaysDeletes(c, sender, f) ==
  IF f.resultCode \in {FULFILLED, USER_CALLBACK_ERROR}
  THEN [c EXCEPT !.s_requestCommitments[f.requestId] = Nil,
                 !.s_withdrawableTokens[sender] = f.gasOverheadJuels + f.callbackCostJuels,
                 !.s_feePool = @ + f.donFee]
  ELSE [c EXCEPT !.s_requestCommitments[f.requestId] = Nil]

\* FunctionsCoordinator.sol:416-465: the storage after one fulfilment
fulfillAndBill(c, sender, f) ==
  IF f.resultCode \in {FULFILLED, USER_CALLBACK_ERROR}
  THEN [c EXCEPT !.s_requestCommitments[f.requestId] = Nil,
                 !.s_withdrawableTokens[sender] = f.gasOverheadJuels + f.callbackCostJuels,
                 !.s_feePool = @ + f.donFee]
  ELSE c

\* the loop of _report over fulfilments[i ..]
RECURSIVE FulfillEach(_, _, _, _)
FulfillEach(c, sender, fulfilments, i) ==
  IF i > Len(fulfilments) THEN c
  ELSE FulfillEach(fulfillAndBill(c, sender, fulfilments[i]), sender, fulfilments, i + 1)

\* FunctionsCoordinator.sol:205-242, the hook of OCR2Base.transmit
report(c, sender, fulfilments) ==
  IF Len(fulfilments) = 0 THEN Revert(c, "ReportInvalid")
  ELSE Ok(FulfillEach(c, sender, fulfilments, 1), <<>>)

\* OCR2Base.transmit: transmitters alone report
transmit(c, sender, fulfilments) ==
  IF TimesIn(sender, c.s_transmitters) = 0 THEN Revert(c, "unauthorized transmitter")
  ELSE report(c, sender, fulfilments)

\* FunctionsCoordinator.sol:198-202, the hook of OCR2Base.setConfig
beforeSetConfig(c) ==
  IF Len(c.s_transmitters) > 0 THEN disperseFeePool(c) ELSE Ok(c, <<>>)

\* OCR2Base.setConfig by the owner: the hook, then the new transmitters
setConfig(c, sender, transmitters) ==
  IF sender # Owner THEN Revert(c, "Only callable by owner")
  ELSE LET d == beforeSetConfig(c)
       IN IF d.revert # "" THEN Revert(c, d.revert)
          ELSE Ok([d.state EXCEPT !.s_transmitters = transmitters], <<>>)

\* a transaction sent to the contract: the function, the sender and the
\* arguments; revert and paid are filled in when it has run
Tx(op, sender, args) == [op |-> op, sender |-> sender, args |-> args, revert |-> "", paid |-> <<>>]
NoTx == Tx("", "", <<>>)

\* ------------------------------------------------------------------ state

VARIABLES
  feeConfig,    \* evmTxAttemptBuilderFeeConfig: what the four getters return
  pc,           \* per worker: where its call of the builder stands
  call,         \* per worker: the function called and its arguments
  ret,          \* per worker: what the call returned
  estCalls,     \* per worker: the estimator calls made by the current call
  validations,  \* per worker: the validations run by the current call
  signCalls,    \* per worker: the keystore calls made by the current call
  stored,       \* per intent: the attempts its owner keeps, in retry order
  coordinator,  \* FunctionsCoordinator: the storage of the contract
  lastTx        \* FunctionsCoordinator: the last transaction and how it ended

vars == <<feeConfig, pc, call, ret, estCalls, validations, signCalls, stored,
          coordinator, lastTx>>

IntentIDs == {etx.ID : etx \in Intents}

FeeConfigs ==
  [EIP1559DynamicFees : BOOLEAN, TipCapMin : Floors, PriceMin : Floors,
   PriceMaxKey : [Addrs -> Ceilings]]

\* the estimator's answers: a quote with a gas limit, or an error; the error
\* is a failure of the pricing service or the report that a bump, clipped at
\* the ceiling, would not exceed the previous fee
NoEst == [fee |-> ZeroFee, feeLimit |-> 0, err |-> NoErr]
ErrEstimatorUnavailable == Err("estimator unavailable", Nil, Nil)
ErrBumpExceedsMax == Err("bump attempt exceeds max configured price", Nil, Nil)
EstAnswers(op) ==
  {[fee |-> q, feeLimit |-> g, err |-> NoErr] : q \in Quotes, g \in GasLimits}
    \cup {[fee |-> ZeroFee, feeLimit |-> 0, err |-> e] :
            e \in IF op = "NewBumpTxAttempt"
                  THEN {ErrEstimatorUnavailable, ErrBumpExceedsMax}
                  ELSE {ErrEstimatorUnavailable}}

\* earlier attempts of an intent, as the broadcaster stored them: built by
\* this builder, then marked broadcast
Broadcast(attempt) ==
  [attempt EXCEPT !.State = "broadcast", !.BroadcastBeforeBlockNum = Ptr(3)]
PermissiveConfig ==
  [EIP1559DynamicFees |-> TRUE, TipCapMin |-> 0, PriceMin |-> 0,
   PriceMaxKey |-> [a \in Addrs |-> Max256BitUInt]]
EarlierAttempts(etx) ==
  {Broadcast(newLegacyAttempt(PermissiveConfig, etx, Ptr(p), 7, TRUE).attempt) : p \in {1, 2}}
    \cup {Broadcast(newDynamicFeeAttempt(PermissiveConfig, etx, DynamicFee(Ptr(2), Ptr(1)),
                                        7, TRUE).attempt)}
\* the broadcaster passes no history, the confirmer the whole of it
PriorLists(etx, previousAttempt) ==
  {<<>>, <<previousAttempt>>}
    \cup {<<a, previousAttempt>> :
            a \in {b \in EarlierAttempts(etx) :
                     /\ b.TxType = 0
                     /\ previousAttempt.TxType = 0
                     /\ Val(b.TxFee.Legacy) < Val(previousAttempt.TxFee.Legacy)}}

\* a call of the builder: the function, its arguments, and the answers the
\* estimator (est) and the keystore (signed) have given it so far
Call(op, etx, fee, gasLimit, txType, previousAttempt, priorAttempts, nonce, fromAddress) ==
  [op |-> op, etx |-> etx, fee |-> fee, gasLimit |-> gasLimit, txType |-> txType,
   previousAttempt |-> previousAttempt, priorAttempts |-> priorAttempts,
   nonce |-> nonce, fromAddress |-> fromAddress, est |-> NoEst, signed |-> Nil]
NoCall == Call("", ZeroTx, ZeroFee, 0, 0, ZeroAttempt, <<>>, 0, ZeroAddress)
NoRet == Result(ZeroAttempt, ZeroFee, 0, FALSE, NoErr, <<>>, <<>>, <<>>)

\* the builder function a call names, run with the answers est and signer
Run(cfg, c, est, signer) ==
  CASE c.op = "NewTxAttempt" -> NewTxAttempt(cfg, c.etx, est, signer)
    [] c.op = "NewTxAttemptWithType" ->
         NewTxAttemptWithType(cfg, c.etx, c.txType, est, signer)
    [] c.op = "NewBumpTxAttempt" ->
         NewBumpTxAttempt(cfg, c.etx, c.previousAttempt, c.priorAttempts, est, signer)
    [] c.op = "NewCustomTxAttempt" ->
         NewCustomTxAttempt(cfg, c.etx, c.fee, c.gasLimit, c.txType, signer)
    [] c.op = "NewEmptyTxAttempt" ->
         NewEmptyTxAttempt(c.nonce, c.gasLimit, c.fee, c.fromAddress, signer)

Init ==
  /\ feeConfig \in FeeConfigs
  /\ pc = [w \in AllWorkers |-> "idle"]
  /\ call = [w \in AllWorkers |-> NoCall]
  /\ ret = [w \in AllWorkers |-> NoRet]
  /\ estCalls = [w \in AllWorkers |-> <<>>]
  /\ validations = [w \in AllWorkers |-> <<>>]
  /\ signCalls = [w \in AllWorkers |-> <<>>]
  /\ stored = [id \in IntentIDs |-> <<>>]
  /\ coordinator = NewCoordinator
  /\ lastTx = NoTx

\* worker w runs call c, whose estimator answer (if it asks for one) is
\* c.est, up to the keystore call or, if it makes none, to its return
\* a builder that keeps the result of the call in progress in one field of
\* its own, shared by every caller
Advance_SharedResult(w, c, r) ==
  /\ call' = [call EXCEPT ![w] = c]
  /\ estCalls' = [estCalls EXCEPT ![w] = r.estCalls]
  /\ validations' = [validations EXCEPT ![w] = r.validations]
  /\ signCalls' = [signCalls EXCEPT ![w] = r.signCalls]
  /\ IF r.signCalls # <<>>
     THEN /\ pc' = [pc EXCEPT ![w] = "SignTx"]
          /\ UNCHANGED ret
     ELSE /\ pc' = [pc EXCEPT ![w] = IF IsPanic(r.err) THEN "panicked" ELSE "done"]
          /\ ret' = [x \in AllWorkers |-> r]
  /\ UNCHANGED <<feeConfig, stored, coordinator, lastTx>>

\* a builder that puts what it built into the previous attempt it was given
\* instead of a new attempt
Advance_OverwritesPrevious(w, c, r) ==
  /\ call' = [call EXCEPT ![w] = [c EXCEPT !.previousAttempt = r.attempt]]
  /\ estCalls' = [estCalls EXCEPT ![w] = r.estCalls]
  /\ validations' = [validations EXCEPT ![w] = r.validations]
  /\ signCalls' = [signCalls EXCEPT ![w] = r.signCalls]
  /\ IF r.signCalls # <<>>
     THEN /\ pc' = [pc EXCEPT ![w] = "SignTx"]
          /\ UNCHANGED ret
     ELSE /\ pc' = [pc EXCEPT ![w] = IF IsPanic(r.err) THEN "panicked" ELSE "done"]
          /\ ret' = [ret EXCEPT ![w] = r]
  /\ UNCHANGED <<feeConfig, stored, coordinator, lastTx>>

Advance(w, c, r) ==
  /\ call' = [call EXCEPT ![w] = c]
  /\ estCalls' = [estCalls EXCEPT ![w] = r.estCalls]
  /\ validations' = [validations EXCEPT ![w] = r.validations]
  /\ signCalls' = [signCalls EXCEPT ![w] = r.signCalls]
  /\ IF r.signCalls # <<>>
     THEN /\ pc' = [pc EXCEPT ![w] = "SignTx"]
          /\ UNCHANGED ret
     ELSE /\ pc' = [pc EXCEPT ![w] = IF IsPanic(r.err) THEN "panicked" ELSE "done"]
          /\ ret' = [ret EXCEPT ![w] = r]
  /\ UNCHANGED <<feeConfig, stored, coordinator, lastTx>>
Proceed(w, c) == Advance(w, c, Run(feeConfig, c, c.est, TRUE))

\* worker w calls the estimator and waits for its answer
AskEstimator(w, c) ==
  /\ call' = [call EXCEPT ![w] = c]
  /\ estCalls' = [estCalls EXCEPT ![w] = Run(feeConfig, c, NoEst, TRUE).estCalls]
  /\ pc' = [pc EXCEPT ![w] = "Estimator"]
  /\ UNCHANGED <<feeConfig, ret, validations, signCalls, stored, coordinator, lastTx>>

CallNewTxAttempt(w) ==
  /\ pc[w] = "idle"
  /\ \E etx \in Intents :
       AskEstimator(w, Call("NewTxAttempt", etx, ZeroFee, 0, 0, ZeroAttempt, <<>>, 0,
                            ZeroAddress))

CallNewTxAttemptWithType(w) ==
  /\ pc[w] = "idle"
  /\ \E etx \in Intents, txType \in TxTypes :
       AskEstimator(w, Call("NewTxAttemptWithType", etx, ZeroFee, 0, txType, ZeroAttempt,
                            <<>>, 0, ZeroAddress))

CallNewBumpTxAttempt(w) ==
  /\ pc[w] = "idle"
  /\ \E etx \in Intents :
       \E previousAttempt \in EarlierAttempts(etx) :
         \E priorAttempts \in PriorLists(etx, previousAttempt) :
           AskEstimator(w, Call("NewBumpTxAttempt", etx, ZeroFee, 0, 0, previousAttempt,
                                priorAttempts, 0, ZeroAddress))

CallNewCustomTxAttempt(w) ==
  /\ pc[w] = "idle"
  /\ \E etx \in Intents, fee \in Quotes, gasLimit \in GasLimits, txType \in TxTypes :
       Proceed(w, Call("NewCustomTxAttempt", etx, fee, gasLimit, txType, ZeroAttempt,
                       <<>>, 0, ZeroAddress))

CallNewEmptyTxAttempt(w) ==
  /\ pc[w] = "idle"
  /\ \E nonce \in {5}, feeLimit \in GasLimits, fee \in Quotes, fromAddress \in Addrs :
       Proceed(w, Call("NewEmptyTxAttempt", ZeroTx, fee, feeLimit, 0, ZeroAttempt, <<>>,
                       nonce, fromAddress))

\* the estimator answers GetFee or BumpFee
EstimatorReturns(w) ==
  /\ pc[w] = "Estimator"
  /\ \E est \in EstAnswers(call[w].op) :
       Proceed(w, [call[w] EXCEPT !.est = est])

\* the keystore answers SignTx
SignerReturns(w) ==
  /\ pc[w] = "SignTx"
  /\ \E signer \in BOOLEAN :
       /\ pc' = [pc EXCEPT ![w] = "done"]
       /\ ret' = [ret EXCEPT ![w] = Run(feeConfig, call[w], call[w].est, signer)]
       /\ call' = [call EXCEPT ![w].signed = Ptr(signer)]
       /\ UNCHANGED <<feeConfig, estCalls, validations, signCalls, stored, coordinator,
                       lastTx>>

\* the caller takes the result; the worker is free for its next call
Return(w) ==
  /\ pc[w] = "done"
  /\ pc' = [pc EXCEPT ![w] = "idle"]
  /\ call' = [call EXCEPT ![w] = NoCall]
  /\ ret' = [ret EXCEPT ![w] = NoRet]
  /\ estCalls' = [estCalls EXCEPT ![w] = <<>>]
  /\ validations' = [validations EXCEPT ![w] = <<>>]
  /\ signCalls' = [signCalls EXCEPT ![w] = <<>>]
  /\ UNCHANGED <<feeConfig, stored, coordinator, lastTx>>

Next ==
  \E w \in Workers :
    \/ CallNewTxAttempt(w)
    \/ CallNewTxAttemptWithType(w)
    \/ CallNewBumpTxAttempt(w)
    \/ CallNewCustomTxAttempt(w)
    \/ CallNewEmptyTxAttempt(w)
    \/ EstimatorReturns(w)
    \/ SignerReturns(w)
    \/ Return(w)

Spec == Init /\ [][Next]_vars

\* ------------------------------------------------------- one retry chain
\* The owner of an intent asks for a first attempt (NewTxAttempt), stores it
\* as broadcast, and on every timeout asks for a bump of the last attempt
\* with the whole history (NewBumpTxAttempt), as the confirmer does.  The
\* operator may switch EIP1559DynamicFees between two calls.

ChainIntents == {etx \in Intents : etx.ID = 1}
ChainQuotes ==
  {EvmFee(Ptr(1), Nil, Nil), EvmFee(Ptr(2), Nil, Nil),
   EvmFee(Nil, Ptr(2), Ptr(1)), EvmFee(Nil, Ptr(2), Ptr(2)),
   EvmFee(Ptr(2), Ptr(2), Ptr(2))}
ChainAnswers(op) == {a \in EstAnswers(op) : a.err # NoErr \/ a.fee \in ChainQuotes}

ChainNewTxAttempt(w) ==
  /\ pc[w] = "idle"
  /\ \E etx \in ChainIntents :
       /\ stored[etx.ID] = <<>>
       /\ AskEstimator(w, Call("NewTxAttempt", etx, ZeroFee, 0, 0, ZeroAttempt, <<>>, 0,
                               ZeroAddress))

ChainNewBumpTxAttempt(w) ==
  /\ pc[w] = "idle"
  /\ \E etx \in ChainIntents :
       /\ stored[etx.ID] # <<>>
       /\ Len(stored[etx.ID]) < MaxChain
       /\ AskEstimator(w, Call("NewBumpTxAttempt", etx, ZeroFee, 0, 0,
                               stored[etx.ID][Len(stored[etx.ID])], stored[etx.ID], 0,
                               ZeroAddress))

ChainEstimatorReturns(w) ==
  /\ pc[w] = "Estimator"
  /\ \E est \in ChainAnswers(call[w].op) :
       Proceed(w, [call[w] EXCEPT !.est = est])

\* the caller takes the result and, if it is an attempt, appends it to the
\* attempts of the intent
ChainStore(w) ==
  /\ pc[w] = "done"
  /\ stored' = IF ret[w].err = NoErr
               THEN [stored EXCEPT ![call[w].etx.ID] = Append(@, Broadcast(ret[w].attempt))]
               ELSE stored
  /\ pc' = [pc EXCEPT ![w] = "idle"]
  /\ call' = [call EXCEPT ![w] = NoCall]
  /\ ret' = [ret EXCEPT ![w] = NoRet]
  /\ estCalls' = [estCalls EXCEPT ![w] = <<>>]
  /\ validations' = [validations EXCEPT ![w] = <<>>]
  /\ signCalls' = [signCalls EXCEPT ![w] = <<>>]
  /\ UNCHANGED <<feeConfig, coordinator, lastTx>>

\* the node operator switches dynamic fees on or off between two calls
Reconfigure ==
  /\ \A w \in AllWorkers : pc[w] = "idle"
  /\ feeConfig' = [feeConfig EXCEPT !.EIP1559DynamicFees = ~@]
  /\ UNCHANGED <<pc, call, ret, estCalls, validations, signCalls, stored, coordinator,
                 lastTx>>

NextChain ==
  \/ \E w \in Workers :
       \/ ChainNewTxAttempt(w)
       \/ ChainNewBumpTxAttempt(w)
       \/ ChainEstimatorReturns(w)
       \/ SignerReturns(w)
       \/ ChainStore(w)
  \/ Reconfigure

SpecChain == Init /\ [][NextChain]_vars

\* ------------------------------------------- two workers, one builder
\* Every worker of AllWorkers calls the same builder for an intent of its
\* own; the estimator's and the keystore's answers to the two calls arrive in
\* any order.

IntentOf(w) == CHOOSE etx \in Intents : etx.ID = (IF w = "w1" THEN 1 ELSE 2)

WorkerNewTxAttempt(w) ==
  /\ pc[w] = "idle"
  /\ AskEstimator(w, Call("NewTxAttempt", IntentOf(w), ZeroFee, 0, 0, ZeroAttempt, <<>>, 0,
                          ZeroAddress))

WorkerNewBumpTxAttempt(w) ==
  /\ pc[w] = "idle"
  /\ \E previousAttempt \in EarlierAttempts(IntentOf(w)) :
       AskEstimator(w, Call("NewBumpTxAttempt", IntentOf(w), ZeroFee, 0, 0, previousAttempt,
                            <<previousAttempt>>, 0, ZeroAddress))

NextWorkers ==
  \E w \in AllWorkers :
    \/ WorkerNewTxAttempt(w)
    \/ WorkerNewBumpTxAttempt(w)
    \/ ChainEstimatorReturns(w)
    \/ SignerReturns(w)
    \/ Return(w)

SpecWorkers == Init /\ [][NextWorkers]_vars

\* ------------------------------------------ FunctionsCoordinator: steps
\* One step is one transaction sent to the contract.  The router never owes
\* the oracles more juels than exist.

Total(c) ==
  c.s_feePool + c.s_withdrawableTokens["t1"] + c.s_withdrawableTokens["t2"]
              + c.s_withdrawableTokens[Router] + c.s_withdrawableTokens[Owner]

Fulfilments ==
  {Fulfilment(id, CoordinatorConfig.donFee, 1, code, cost) :
     id \in RequestIds, code \in FulfillResults, cost \in {0, 1}}
\* reports of no, one and two fulfilments
Reports ==
  {<<>>} \cup {<<f>> : f \in Fulfilments}
         \cup {<<f, g>> : f \in {h \in Fulfilments : h.resultCode = FULFILLED /\ h.callbackCostJuels = 1},
                          g \in {h \in Fulfilments : h.callbackCostJuels = 0}}

\* the transaction tx ends as r says
Apply(tx, r) ==
  /\ Total(r.state) <= JuelSupply
  /\ coordinator' = r.state
  /\ lastTx' = [tx EXCEPT !.revert = r.revert, !.paid = r.paid]

StartRequest ==
  /\ \E sender \in {Router, "t1"}, request \in Requests :
       Apply(Tx("startRequest", sender, [request |-> request]),
             startRequest(coordinator, sender, request, CostEstimate, BlockTimestamp))
  /\ UNCHANGED <<feeConfig, pc, call, ret, estCalls, validations, signCalls, stored>>

Transmit ==
  /\ \E sender \in {"t1", "t2"}, fulfilments \in Reports :
       Apply(Tx("transmit", sender, [fulfilments |-> fulfilments]),
             transmit(coordinator, sender, fulfilments))
  /\ UNCHANGED <<feeConfig, pc, call, ret, estCalls, validations, signCalls, stored>>

DeleteCommitment ==
  /\ \E sender \in {Router, "t1"}, requestId \in RequestIds :
       Apply(Tx("deleteCommitment", sender, [requestId |-> requestId]),
             deleteCommitment(coordinator, sender, requestId))
  /\ UNCHANGED <<feeConfig, pc, call, ret, estCalls, validations, signCalls, stored>>

OracleWithdraw ==
  /\ \E sender \in {"t1", "t2"}, amount \in {0, 1, 3} :
       Apply(Tx("oracleWithdraw", sender, [recipient |-> sender, amount |-> amount]),
             oracleWithdraw(coordinator, sender, sender, amount))
  /\ UNCHANGED <<feeConfig, pc, call, ret, estCalls, validations, signCalls, stored>>

OracleWithdrawAll ==
  /\ \E sender \in {Owner, "t1"} :
       Apply(Tx("oracleWithdrawAll", sender, <<>>), oracleWithdrawAll(coordinator, sender))
  /\ UNCHANGED <<feeConfig, pc, call, ret, estCalls, validations, signCalls, stored>>

SetConfig ==
  /\ \E sender \in {Owner, "t1"}, transmitters \in TransmitterLists :
       Apply(Tx("setConfig", sender, [transmitters |-> transmitters]),
             setConfig(coordinator, sender, transmitters))
  /\ UNCHANGED <<feeConfig, pc, call, ret, estCalls, validations, signCalls, stored>>

NextCoordinator ==
  \/ StartRequest
  \/ Transmit
  \/ DeleteCommitment
  \/ OracleWithdraw
  \/ OracleWithdrawAll
  \/ SetConfig

\* the contract as deployed, the builder idle
InitCoordinator ==
  /\ Init
  /\ feeConfig = CHOOSE cfg \in FeeConfigs : \A a \in Addrs : cfg.PriceMaxKey[a] = 2

SpecCoordinator == InitCoordinator /\ [][NextCoordinator]_vars

\* _disperseFeePool and its callers on every storage within the supply.  The
\* function is also given the storage its guard at line 524 is written for, a
\* pool that has fees while no transmitter is set.
DisperseInputs ==
  {[NewCoordinator EXCEPT !.s_withdrawableTokens["t1"] = b1,
                          !.s_withdrawableTokens["t2"] = b2,
                          !.s_feePool = pool,
                          !.s_transmitters = transmitters] :
     b1 \in 0 .. JuelSupply, b2 \in 0 .. JuelSupply, pool \in 0 .. JuelSupply,
     transmitters \in TransmitterLists \cup {<<>>}}

InitDisperse ==
  /\ feeConfig = CHOOSE cfg \in FeeConfigs : \A a \in Addrs : cfg.PriceMaxKey[a] = 2
  /\ pc = [w \in AllWorkers |-> "idle"]
  /\ call = [w \in AllWorkers |-> NoCall]
  /\ ret = [w \in AllWorkers |-> NoRet]
  /\ estCalls = [w \in AllWorkers |-> <<>>]
  /\ validations = [w \in AllWorkers |-> <<>>]
  /\ signCalls = [w \in AllWorkers |-> <<>>]
  /\ stored = [id \in IntentIDs |-> <<>>]
  /\ coordinator \in {c \in DisperseInputs : Total(c) <= JuelSupply}
  /\ lastTx = NoTx

SpecDisperse == InitDisperse /\ [][NextCoordinator]_vars

TypeOK ==
  /\ feeConfig \in FeeConfigs
  /\ \A w \in AllWorkers : pc[w] \in {"idle", "Estimator", "SignTx", "done", "panicked"}
  /\ \A id \in IntentIDs : Len(stored[id]) <= MaxChain

\* ----------------------------------------------------------------- claims

\* the largest value of the 256-bit domain, 2^256 - 1 at full width
Uint256Max == 2 ^ WordBits - 1

Returned(w) == pc[w] = "done"
Custom(w, txType) == call[w].op = "NewCustomTxAttempt" /\ call[w].txType = txType
LegacyOnly(fee) == fee.Legacy # Nil /\ fee.DynamicFeeCap = Nil /\ fee.DynamicTipCap = Nil
DynamicOnly(fee) == fee.Legacy = Nil /\ fee.DynamicFeeCap # Nil /\ fee.DynamicTipCap # Nil
Ceiling(w) == feeConfig.PriceMaxKey[call[w].etx.FromAddress]
\* the call of worker w ran a validation and it accepted / rejected the fee
Accepted(w) == validations[w] = <<NoErr>>
Rejected(w) == Len(validations[w]) = 1 /\ validations[w][1] # NoErr
ViaEstimator == {"NewTxAttempt", "NewTxAttemptWithType", "NewBumpTxAttempt"}

\* C1: NewCustomTxAttempt with type 0, a legacy price p and a signer that
\* succeeds returns an attempt carrying p when PriceMin <= p <= PriceMaxKey
\* (both inclusive); when p is above the ceiling or below the floor it returns
\* no attempt and a validation error that names p and a bound p violates.
C1_LegacyPriceBounds ==
  \A w \in AllWorkers :
    (Returned(w) /\ Custom(w, 0) /\ call[w].fee.Legacy # Nil) =>
      LET p == Val(call[w].fee.Legacy)
          floor == feeConfig.PriceMin
          ceiling == Ceiling(w)
          err == ret[w].err
      IN /\ (floor <= p /\ p <= ceiling) =>
              /\ Accepted(w)
              /\ Len(signCalls[w]) = 1
         /\ (floor <= p /\ p <= ceiling /\ call[w].signed = Ptr(TRUE)) =>
              /\ err = NoErr
              /\ ret[w].attempt.TxFee.Legacy = Ptr(p)
              /\ ret[w].attempt.SignedRawTx # Nil
         /\ (p < floor \/ p > ceiling) =>
              /\ ret[w].attempt = ZeroAttempt
              /\ signCalls[w] = <<>>
              /\ err.wrap = <<"error validating gas">>
              /\ err.value = Ptr(p)
              /\ \/ /\ err.msg = "gas price would exceed max configured gas price"
                    /\ err.bound = Ptr(ceiling) /\ p > ceiling
                 \/ /\ err.msg = "gas price is below min configured gas price"
                    /\ err.bound = Ptr(floor) /\ p < floor

\* a price equal to the ceiling was signed and returned as an attempt
C1_Witness ==
  \E w \in AllWorkers :
    /\ Returned(w) /\ Custom(w, 0) /\ call[w].fee.Legacy = Ptr(Ceiling(w))
    /\ call[w].signed = Ptr(TRUE)
    /\ ret[w].err = NoErr

\* C2: a dynamic quote with fee cap < tip cap fails validateDynamicFeeGas
\* under every configuration, and NewCustomTxAttempt with type 2 neither
\* signs nor returns an attempt for it.
C2_FeeCapBelowTipCapFails ==
  \A w \in AllWorkers :
    ( /\ Custom(w, 2) /\ ValidDynamic(call[w].fee)
      /\ Val(call[w].fee.DynamicFeeCap) < Val(call[w].fee.DynamicTipCap) ) =>
      /\ Returned(w)
      /\ Rejected(w)
      /\ signCalls[w] = <<>>
      /\ ret[w].err # NoErr
      /\ ret[w].attempt = ZeroAttempt

\* a quote that breaks no rule but fee cap >= tip cap was rejected for it
C2_Witness ==
  \E w \in AllWorkers :
    /\ Returned(w) /\ Custom(w, 2) /\ ValidDynamic(call[w].fee)
    /\ Val(call[w].fee.DynamicFeeCap) < Val(call[w].fee.DynamicTipCap)
    /\ Val(call[w].fee.DynamicTipCap) <= Uint256Max
    /\ Val(call[w].fee.DynamicTipCap) <= Ceiling(w)
    /\ Val(call[w].fee.DynamicTipCap) >= feeConfig.TipCapMin
    /\ ret[w].err.msg = "gas fee cap must be greater than or equal to gas tip cap"

\* the four rules of section 4.3 for a dynamic quote
DynamicRulesHold(w) ==
  LET feeCap == Val(call[w].fee.DynamicFeeCap)
      tipCap == Val(call[w].fee.DynamicTipCap)
  IN /\ feeCap <= Uint256Max /\ tipCap <= Uint256Max
     /\ feeCap >= tipCap
     /\ feeCap <= Ceiling(w)
     /\ tipCap >= feeConfig.TipCapMin

\* C3: validateDynamicFeeGas accepts a quote exactly when both values fit the
\* 256-bit domain, fee cap >= tip cap, fee cap <= PriceMaxKey and
\* tip cap >= TipCapMin.
C3_DynamicAcceptedIffRules ==
  \A w \in AllWorkers :
    (Custom(w, 2) /\ ValidDynamic(call[w].fee)) =>
      (Accepted(w) <=> DynamicRulesHold(w))

\* C4: a fee cap or tip cap above 2^256 - 1 is never accepted by
\* validateDynamicFeeGas, whatever the ceiling.
C4_AboveDomainRejected ==
  \A w \in AllWorkers :
    ( /\ Custom(w, 2) /\ ValidDynamic(call[w].fee)
      /\ \/ Val(call[w].fee.DynamicFeeCap) > Uint256Max
         \/ Val(call[w].fee.DynamicTipCap) > Uint256Max ) =>
      Rejected(w)

\* C5: NewCustomTxAttempt with type 2 and a legacy-only quote, or with type 0
\* and a dynamic-only quote, returns an error with retryable = false and the
\* zero attempt, and calls neither a validation nor the signer.
C5_TypeMismatchFatal ==
  \A w \in AllWorkers :
    ( \/ Custom(w, 2) /\ LegacyOnly(call[w].fee)
      \/ Custom(w, 0) /\ DynamicOnly(call[w].fee) ) =>
      /\ Returned(w)
      /\ ret[w].err # NoErr
      /\ ret[w].retryable = FALSE
      /\ ret[w].attempt = ZeroAttempt
      /\ validations[w] = <<>>
      /\ signCalls[w] = <<>>

\* type 2 was asked for with a quote that has a legacy price only
C5_Witness ==
  \E w \in AllWorkers :
    /\ Returned(w) /\ Custom(w, 2) /\ LegacyOnly(call[w].fee)
    /\ ret[w].err.msg = "type 2 transaction but estimator did not return dynamic fee bump"

\* C6: NewCustomTxAttempt with a type other than 0 and 2 returns an error
\* with retryable = false and the zero attempt, whatever the quote, without
\* validating or signing.
C6_UnknownTypeFatal ==
  \A w \in AllWorkers :
    (call[w].op = "NewCustomTxAttempt" /\ call[w].txType \notin {0, 2}) =>
      /\ Returned(w)
      /\ ret[w].err.msg = "invariant violation: unrecognised transaction type"
      /\ ret[w].retryable = FALSE
      /\ ret[w].attempt = ZeroAttempt
      /\ validations[w] = <<>>
      /\ signCalls[w] = <<>>

\* an unknown type came with a quote that has every field populated
C6_Witness ==
  \E w \in AllWorkers :
    /\ Returned(w) /\ call[w].op = "NewCustomTxAttempt" /\ call[w].txType = 1
    /\ call[w].fee.Legacy # Nil /\ ValidDynamic(call[w].fee)
    /\ ret[w].err # NoErr

\* C7: when the fee validation fails inside NewCustomTxAttempt, that function
\* and the three that delegate to it return retryable = false.
C7_ValidationFailureFatal ==
  \A w \in AllWorkers :
    ( /\ Returned(w) /\ Rejected(w)
      /\ call[w].op \in ViaEstimator \cup {"NewCustomTxAttempt"} ) =>
      ret[w].retryable = FALSE

\* C8: when the signer fails during NewCustomTxAttempt, on the legacy or the
\* dynamic-fee path, the function returns retryable = false and no attempt.
C8_SigningFailureFatal ==
  \A w \in AllWorkers :
    ( /\ Returned(w) /\ call[w].op = "NewCustomTxAttempt"
      /\ call[w].signed = Ptr(FALSE) ) =>
      /\ ret[w].retryable = FALSE
      /\ ret[w].attempt = ZeroAttempt

\* C9: when GetFee (NewTxAttempt, NewTxAttemptWithType) or BumpFee
\* (NewBumpTxAttempt) returns an error, the builder returns that error,
\* wrapped, with retryable = true and the zero attempt, and calls neither a
\* validation nor the signer.
C9_EstimatorErrorRetryable ==
  \A w \in AllWorkers :
    (call[w].op \in ViaEstimator /\ call[w].est.err # NoErr) =>
      /\ Returned(w)
      /\ ret[w].retryable = TRUE
      /\ ret[w].err.msg = call[w].est.err.msg
      /\ ret[w].err.wrap =
           <<IF call[w].op = "NewBumpTxAttempt" THEN "failed to bump fee"
             ELSE "failed to get fee">>
      /\ ret[w].attempt = ZeroAttempt
      /\ Len(estCalls[w]) = 1
      /\ validations[w] = <<>>
      /\ signCalls[w] = <<>>

\* GetFee failed in a call of NewTxAttemptWithType
C9_Witness ==
  \E w \in AllWorkers :
    /\ Returned(w) /\ call[w].op = "NewTxAttemptWithType"
    /\ call[w].est.err = ErrEstimatorUnavailable
    /\ ret[w].err # NoErr

\* C10: when BumpFee reports that the bump, clipped at the ceiling, would not
\* exceed the previous fee, NewBumpTxAttempt returns retryable = false.
C10_BumpLimitFatal ==
  \A w \in AllWorkers :
    ( /\ Returned(w) /\ call[w].op = "NewBumpTxAttempt"
      /\ call[w].est.err = ErrBumpExceedsMax ) =>
      ret[w].retryable = FALSE

\* C10, amended: NewBumpTxAttempt returns that report like every other
\* estimator error, wrapped as "failed to bump fee" with retryable = true and
\* the zero attempt; the report differs from an ordinary estimator failure
\* in the returned error alone.
C10_BumpLimitRetryable ==
  \A w \in AllWorkers :
    ( /\ Returned(w) /\ call[w].op = "NewBumpTxAttempt"
      /\ call[w].est.err = ErrBumpExceedsMax ) =>
      /\ ret[w].retryable = TRUE
      /\ ret[w].err = Wrap(ErrBumpExceedsMax, "failed to bump fee")
      /\ ret[w].err # Wrap(ErrEstimatorUnavailable, "failed to bump fee")
      /\ ret[w].attempt = ZeroAttempt
      /\ signCalls[w] = <<>>

\* BumpFee reported the limit for a bump of a legacy attempt with a history
C10_Witness ==
  \E w \in AllWorkers :
    /\ Returned(w) /\ call[w].op = "NewBumpTxAttempt"
    /\ call[w].est.err = ErrBumpExceedsMax
    /\ Len(call[w].priorAttempts) = 2
    /\ ret[w].retryable

\* every fee attempt b carries is strictly exceeded by the same fee of attempt a
ExceedsFee(a, b) ==
  /\ b.TxFee.Legacy # Nil =>
       a.TxFee.Legacy # Nil /\ Val(a.TxFee.Legacy) > Val(b.TxFee.Legacy)
  /\ b.TxFee.DynamicFeeCap # Nil =>
       a.TxFee.DynamicFeeCap # Nil /\ Val(a.TxFee.DynamicFeeCap) > Val(b.TxFee.DynamicFeeCap)
  /\ b.TxFee.DynamicTipCap # Nil =>
       a.TxFee.DynamicTipCap # Nil /\ Val(a.TxFee.DynamicTipCap) > Val(b.TxFee.DynamicTipCap)

\* C11: an attempt NewBumpTxAttempt returns without error carries a fee that
\* strictly exceeds the corresponding fee of every attempt of the history it
\* was given, and NewBumpTxAttempt hands nothing to the signer unless the fee
\* BumpFee returned exceeds them all.
C11_BumpExceedsHistory ==
  \A w \in AllWorkers :
    call[w].op = "NewBumpTxAttempt" =>
      /\ (Returned(w) /\ ret[w].err = NoErr) =>
           \A i \in DOMAIN call[w].priorAttempts :
             ExceedsFee(ret[w].attempt, call[w].priorAttempts[i])
      /\ signCalls[w] # <<>> =>
           \A i \in DOMAIN call[w].priorAttempts :
             ExceedsFee([TxFee |-> call[w].est.fee], call[w].priorAttempts[i])

\* C12: an attempt NewBumpTxAttempt returns without error has the type of
\* previousAttempt, whatever EIP1559DynamicFees is at the time of the bump,
\* and so all the attempts an intent collects through successive bumps have
\* the type of its first attempt.
C12_BumpKeepsType ==
  /\ \A w \in AllWorkers :
       (Returned(w) /\ call[w].op = "NewBumpTxAttempt" /\ ret[w].err = NoErr) =>
         ret[w].attempt.TxType = call[w].previousAttempt.TxType
  /\ \A id \in IntentIDs : \A i \in DOMAIN stored[id] :
       stored[id][i].TxType = stored[id][1].TxType

\* a legacy intent is bumped a second time, after dynamic fees were switched
\* on, and the attempt returned is again a legacy attempt
C12_Witness ==
  \E w \in AllWorkers :
    /\ Returned(w) /\ call[w].op = "NewBumpTxAttempt" /\ ret[w].err = NoErr
    /\ Len(call[w].priorAttempts) >= 2
    /\ stored[call[w].etx.ID] = call[w].priorAttempts
    /\ feeConfig.EIP1559DynamicFees
    /\ call[w].previousAttempt.TxType = 0
    /\ ret[w].attempt.TxType = 0

\* the keystore's answer to the call c, for a call that got one
SignerOf(c) == IF c.signed = Nil THEN TRUE ELSE Val(c.signed)

\* C13: what NewTxAttempt returns (attempt, fee, fee limit, retryable flag,
\* error, and the estimator, validation and signer calls it made) is what
\* NewTxAttemptWithType returns for the same intent and the same answers with
\* type 2 when EIP1559DynamicFees is on and type 0 when it is off; what
\* NewTxAttemptWithType returns for the caller's type is the same with
\* EIP1559DynamicFees on and off.
C13_FreshIsWithType ==
  \A w \in AllWorkers :
    Returned(w) =>
      /\ call[w].op = "NewTxAttempt" =>
           /\ ret[w] = NewTxAttemptWithType(feeConfig, call[w].etx,
                                            IF feeConfig.EIP1559DynamicFees THEN 2 ELSE 0,
                                            call[w].est, SignerOf(call[w]))
           /\ ret[w].err = NoErr =>
                ret[w].attempt.TxType = IF feeConfig.EIP1559DynamicFees THEN 2 ELSE 0
      /\ call[w].op = "NewTxAttemptWithType" =>
           /\ ret[w] = NewTxAttemptWithType([feeConfig EXCEPT !.EIP1559DynamicFees = ~@],
                                            call[w].etx, call[w].txType, call[w].est,
                                            SignerOf(call[w]))
           /\ ret[w].err = NoErr => ret[w].attempt.TxType = call[w].txType

\* NewTxAttempt returned a dynamic-fee attempt with dynamic fees on
C13_Witness ==
  \E w \in AllWorkers :
    /\ Returned(w) /\ call[w].op = "NewTxAttempt"
    /\ feeConfig.EIP1559DynamicFees
    /\ ret[w].err = NoErr /\ ret[w].attempt.TxType = 2

\* the quote a call builds its attempt from: the caller's for
\* NewCustomTxAttempt, the estimator's for the other three
QuoteOf(c) == IF c.op = "NewCustomTxAttempt" THEN c.fee ELSE c.est.fee

\* C14: an attempt returned without error by NewTxAttempt,
\* NewTxAttemptWithType, NewBumpTxAttempt or NewCustomTxAttempt carries the
\* fees of the quote unchanged (nothing is clamped), and they are within the
\* configured bounds: PriceMin <= gas price <= PriceMaxKey for type 0,
\* TipCapMin <= tip cap <= fee cap <= PriceMaxKey for type 2.
C14_ReturnedFeesInBounds ==
  \A w \in AllWorkers :
    ( /\ Returned(w) /\ ret[w].err = NoErr
      /\ call[w].op \in ViaEstimator \cup {"NewCustomTxAttempt"} ) =>
      /\ ret[w].attempt.TxType \in {0, 2}
      /\ ret[w].attempt.TxType = 0 =>
           /\ ret[w].attempt.TxFee = EvmFee(QuoteOf(call[w]).Legacy, Nil, Nil)
           /\ ret[w].attempt.TxFee.Legacy # Nil
           /\ feeConfig.PriceMin <= Val(ret[w].attempt.TxFee.Legacy)
           /\ Val(ret[w].attempt.TxFee.Legacy) <= Ceiling(w)
      /\ ret[w].attempt.TxType = 2 =>
           /\ ret[w].attempt.TxFee = EvmFee(Nil, QuoteOf(call[w]).DynamicFeeCap,
                                            QuoteOf(call[w]).DynamicTipCap)
           /\ ret[w].attempt.TxFee.DynamicFeeCap # Nil
           /\ ret[w].attempt.TxFee.DynamicTipCap # Nil
           /\ feeConfig.TipCapMin <= Val(ret[w].attempt.TxFee.DynamicTipCap)
           /\ Val(ret[w].attempt.TxFee.DynamicTipCap) <= Val(ret[w].attempt.TxFee.DynamicFeeCap)
           /\ Val(ret[w].attempt.TxFee.DynamicFeeCap) <= Ceiling(w)

\* a bump returned a dynamic-fee attempt whose fee cap is the ceiling and
\* whose tip cap is the floor
C14_Witness ==
  \E w \in AllWorkers :
    /\ Returned(w) /\ ret[w].err = NoErr /\ call[w].op = "NewBumpTxAttempt"
    /\ ret[w].attempt.TxType = 2
    /\ ret[w].attempt.TxFee.DynamicFeeCap = Ptr(Ceiling(w))
    /\ ret[w].attempt.TxFee.DynamicTipCap = Ptr(feeConfig.TipCapMin)
    /\ feeConfig.TipCapMin < Ceiling(w)

\* C15: in each of the five functions, NewEmptyTxAttempt included, a
\* transaction is handed to the signer only after a validation of its fee
\* against the floor and the ceiling ran in the same call and accepted it.
C15_SignedOnlyAfterValidation ==
  \A w \in AllWorkers :
    signCalls[w] # <<>> => Accepted(w)

\* C16: every attempt returned without error, by NewEmptyTxAttempt as by the
\* other four functions, has the state in_progress.
C16_ReturnedInProgress ==
  \A w \in AllWorkers :
    (Returned(w) /\ ret[w].err = NoErr) =>
      ret[w].attempt.State = TxAttemptInProgress

\* C17: NewEmptyTxAttempt with a quote that has no legacy price returns an
\* error and the zero attempt and hands nothing to the signer; with a legacy
\* price and a signer that succeeds it returns, without error, an attempt
\* that carries the signed bytes of the transaction it built and their hash.
C17_EmptyNeedsLegacyPrice ==
  \A w \in AllWorkers :
    call[w].op = "NewEmptyTxAttempt" =>
      /\ call[w].fee.Legacy = Nil =>
           /\ Returned(w)
           /\ ret[w].err # NoErr
           /\ ret[w].attempt = ZeroAttempt
           /\ signCalls[w] = <<>>
      /\ (call[w].fee.Legacy # Nil /\ Returned(w) /\ call[w].signed = Ptr(TRUE)) =>
           /\ ret[w].err = NoErr
           /\ Len(signCalls[w]) = 1
           /\ ret[w].attempt.SignedRawTx =
                Ptr([rlpOf |-> signCalls[w][1].tx, by |-> call[w].fromAddress,
                     chain |-> ChainID])
           /\ ret[w].attempt.Hash =
                Ptr([hashOf |-> signCalls[w][1].tx, by |-> call[w].fromAddress,
                     chain |-> ChainID])

\* NewEmptyTxAttempt returned from a call with a dynamic-only quote
C17_Witness ==
  \E w \in AllWorkers :
    /\ Returned(w) /\ call[w].op = "NewEmptyTxAttempt"
    /\ DynamicOnly(call[w].fee)
    /\ ret[w].err # NoErr /\ ret[w].attempt = ZeroAttempt

\* C18: the transaction NewEmptyTxAttempt hands to the signer is a legacy
\* transaction with value 0, no payload, the nonce, fee limit and legacy
\* price it was given, and the zero address as destination, whatever the
\* source address.
C18_EmptyGoesToZeroAddress ==
  \A w \in AllWorkers :
    (call[w].op = "NewEmptyTxAttempt" /\ signCalls[w] # <<>>) =>
      signCalls[w][1].tx =
        EthTx(0, Nil, call[w].nonce, ZeroAddress, 0, call[w].gasLimit, call[w].fee.Legacy,
              Nil, Nil, <<>>)

\* C19: when NewCustomTxAttempt accepts an intent, a quote and a gas limit,
\* the transaction it hands to the signer has the intent's sequence number,
\* destination, value and payload, that gas limit, and the quote's gas price
\* (type 0) or the quote's fee cap as fee cap and tip cap as tip cap (type
\* 2); the attempt it returns carries the intent, the gas limit, the same
\* fees and the signed encoding of that transaction.
C19_CustomRoundTrip ==
  \A w \in AllWorkers :
    (call[w].op = "NewCustomTxAttempt" /\ signCalls[w] # <<>>) =>
      LET tx == signCalls[w][1].tx IN
      /\ Len(signCalls[w]) = 1
      /\ signCalls[w][1].address = call[w].etx.FromAddress
      /\ tx.Nonce = Val(call[w].etx.Sequence)
      /\ tx.To = call[w].etx.ToAddress
      /\ tx.Value = call[w].etx.Value
      /\ tx.Data = call[w].etx.EncodedPayload
      /\ tx.Gas = call[w].gasLimit
      /\ tx.Type = call[w].txType
      /\ call[w].txType = 0 =>
           /\ tx.GasPrice = call[w].fee.Legacy
           /\ tx.GasFeeCap = Nil /\ tx.GasTipCap = Nil
      /\ call[w].txType = 2 =>
           /\ tx.GasFeeCap = call[w].fee.DynamicFeeCap
           /\ tx.GasTipCap = call[w].fee.DynamicTipCap
           /\ tx.GasPrice = Nil
      /\ (Returned(w) /\ ret[w].err = NoErr) =>
           /\ ret[w].attempt.Tx = call[w].etx
           /\ ret[w].attempt.TxID = call[w].etx.ID
           /\ ret[w].attempt.TxType = call[w].txType
           /\ ret[w].attempt.ChainSpecificFeeLimit = call[w].gasLimit
           /\ ret[w].attempt.TxFee =
                IF call[w].txType = 0
                THEN EvmFee(call[w].fee.Legacy, Nil, Nil)
                ELSE EvmFee(Nil, call[w].fee.DynamicFeeCap, call[w].fee.DynamicTipCap)
           /\ Val(ret[w].attempt.SignedRawTx).rlpOf = tx
           /\ Val(ret[w].attempt.Hash).hashOf = tx

\* a dynamic-fee attempt was returned for a quote whose fee cap and tip cap
\* differ, for the intent with a value and a two-byte payload
C19_Witness ==
  \E w \in AllWorkers :
    /\ Returned(w) /\ call[w].op = "NewCustomTxAttempt" /\ call[w].txType = 2
    /\ ret[w].err = NoErr
    /\ call[w].fee.DynamicFeeCap # call[w].fee.DynamicTipCap
    /\ call[w].etx.Value # 0 /\ Len(call[w].etx.EncodedPayload) = 2
    /\ signCalls[w][1].tx.GasTipCap = call[w].fee.DynamicTipCap

\* what the call of worker w returns when it runs alone, with the answers
\* the estimator and the keystore gave it
Alone(w) == Run(feeConfig, call[w], call[w].est, SignerOf(call[w]))

BothVariants(fee) == fee.Legacy # Nil /\ fee.DynamicFeeCap # Nil /\ fee.DynamicTipCap # Nil
\* the quote without what a call of the given type does not ask for
MatchingVariant(fee, txType) ==
  IF txType = 0 THEN EvmFee(fee.Legacy, Nil, Nil)
  ELSE EvmFee(Nil, fee.DynamicFeeCap, fee.DynamicTipCap)
\* the call of worker w was turned down by one of the two fee checks of
\* NewCustomTxAttempt, before any validation
TurnedDown(w) ==
  /\ Returned(w) /\ ret[w].err # NoErr /\ ret[w].err.wrap = <<>>
  /\ validations[w] = <<>> /\ signCalls[w] = <<>>

\* C22: NewCustomTxAttempt of type 0 or 2 returns an error for every quote
\* that has both the legacy price and the fee cap / tip cap pair.
C22_BothVariantsRejected ==
  \A w \in AllWorkers :
    ( /\ Returned(w) /\ (Custom(w, 0) \/ Custom(w, 2))
      /\ BothVariants(call[w].fee) ) =>
      ret[w].err # NoErr

\* C22, amended: NewCustomTxAttempt of type 0 or 2 turns a quote down
\* exactly when the variant of that type is missing from it (no legacy price
\* for type 0, fee cap or tip cap missing for type 2); whatever else the
\* quote carries is ignored, so a quote with both variants gets the result
\* of the quote reduced to the variant asked for.
C22_MatchingVariantDecides ==
  \A w \in AllWorkers :
    ( /\ pc[w] \in {"SignTx", "done", "panicked"}
      /\ (Custom(w, 0) \/ Custom(w, 2)) ) =>
      /\ Custom(w, 0) => (TurnedDown(w) <=> call[w].fee.Legacy = Nil)
      /\ Custom(w, 2) =>
           (TurnedDown(w) <=>
              (call[w].fee.DynamicFeeCap = Nil \/ call[w].fee.DynamicTipCap = Nil))
      /\ Returned(w) =>
           ret[w] = NewCustomTxAttempt(feeConfig, call[w].etx,
                                       MatchingVariant(call[w].fee, call[w].txType),
                                       call[w].gasLimit, call[w].txType, SignerOf(call[w]))

\* a legacy attempt was returned for a quote that has both variants
C22_Witness ==
  \E w \in AllWorkers :
    /\ Returned(w) /\ Custom(w, 0)
    /\ BothVariants(call[w].fee)
    /\ ret[w].err = NoErr
    /\ ret[w].attempt.TxFee = EvmFee(call[w].fee.Legacy, Nil, Nil)

C24_BumpFeeArguments ==
  \A w \in AllWorkers :
    (call[w].op = "NewBumpTxAttempt" /\ pc[w] # "idle") =>
      /\ Len(estCalls[w]) = 1
      /\ estCalls[w][1].op = "BumpFee"
      /\ estCalls[w][1].originalFee = call[w].previousAttempt.TxFee
      /\ estCalls[w][1].feeLimit = call[w].etx.FeeLimit
      /\ estCalls[w][1].maxFeePrice = feeConfig.PriceMaxKey[call[w].etx.FromAddress]
      /\ Len(estCalls[w][1].attempts) = Len(call[w].priorAttempts)
      /\ \A i \in DOMAIN call[w].priorAttempts :
           estCalls[w][1].attempts[i] =
             [ChainSpecificFeeLimit |-> call[w].priorAttempts[i].ChainSpecificFeeLimit,
              BroadcastBeforeBlockNum |-> call[w].priorAttempts[i].BroadcastBeforeBlockNum,
              TxHash |-> call[w].priorAttempts[i].Hash,
              TxType |-> call[w].priorAttempts[i].TxType,
              GasPrice |-> call[w].priorAttempts[i].TxFee.Legacy,
              DynamicFee |-> [FeeCap |-> call[w].priorAttempts[i].TxFee.DynamicFeeCap,
                              TipCap |-> call[w].priorAttempts[i].TxFee.DynamicTipCap]]

\* NewBumpTxAttempt has returned from a call with two different prior attempts
C24_Witness ==
  \E w \in AllWorkers :
    /\ Returned(w) /\ call[w].op = "NewBumpTxAttempt"
    /\ Len(call[w].priorAttempts) = 2
    /\ call[w].priorAttempts[1].Hash # call[w].priorAttempts[2].Hash
    /\ Len(estCalls[w]) = 1
    /\ estCalls[w][1].attempts[2].TxHash = call[w].previousAttempt.Hash

\* the gas limit a call builds its attempt with: the caller's for
\* NewCustomTxAttempt, the estimator's for the other three
LimitOf(c) == IF c.op = "NewCustomTxAttempt" THEN c.gasLimit ELSE c.est.feeLimit

\* C25: an attempt returned without error by NewCustomTxAttempt, directly or
\* through NewTxAttempt, NewTxAttemptWithType or NewBumpTxAttempt, records
\* one fee variant, that of its type: the legacy price alone for type 0, the
\* fee cap and the tip cap alone for type 2, also when the quote had both;
\* its ChainSpecificFeeLimit is the gas limit argument (the limit the
\* estimator returned), not the intent's FeeLimit.
C25_OneVariantAndGivenLimit ==
  \A w \in AllWorkers :
    ( /\ Returned(w) /\ ret[w].err = NoErr
      /\ call[w].op \in ViaEstimator \cup {"NewCustomTxAttempt"} ) =>
      /\ ret[w].attempt.TxType = 0 => LegacyOnly(ret[w].attempt.TxFee)
      /\ ret[w].attempt.TxType = 2 => DynamicOnly(ret[w].attempt.TxFee)
      /\ ret[w].attempt.TxType \in {0, 2}
      /\ ret[w].attempt.ChainSpecificFeeLimit = LimitOf(call[w])
      /\ call[w].etx.FeeLimit # LimitOf(call[w]) =>
           ret[w].attempt.ChainSpecificFeeLimit # call[w].etx.FeeLimit

\* a legacy attempt was returned by NewTxAttempt for a quote with both
\* variants and a gas limit that is not the intent's FeeLimit
C25_Witness ==
  \E w \in AllWorkers :
    /\ Returned(w) /\ ret[w].err = NoErr /\ call[w].op = "NewTxAttempt"
    /\ BothVariants(call[w].est.fee)
    /\ ret[w].attempt.TxType = 0 /\ LegacyOnly(ret[w].attempt.TxFee)
    /\ call[w].est.feeLimit # call[w].etx.FeeLimit
    /\ ret[w].attempt.ChainSpecificFeeLimit = call[w].est.feeLimit

\* C26: whenever one of the five functions returns an error (from the
\* estimator, a type that does not match the quote, an unknown type, a
\* validation or the signer), the attempt it returns with it is the zero
\* value: no signed bytes, no hash, no fee, no state.
C26_ErrorMeansZeroAttempt ==
  \A w \in AllWorkers :
    (Returned(w) /\ ret[w].err # NoErr) =>
      /\ ret[w].attempt = ZeroAttempt
      /\ ret[w].attempt.SignedRawTx = Nil
      /\ ret[w].attempt.Hash = Nil
      /\ ret[w].attempt.TxFee = ZeroFee
      /\ ret[w].attempt.State = ""

\* the keystore refused to sign a validated dynamic-fee transaction
C26_Witness ==
  \E w \in AllWorkers :
    /\ Returned(w) /\ Custom(w, 2)
    /\ Accepted(w) /\ call[w].signed = Ptr(FALSE)
    /\ ret[w].err # NoErr /\ ret[w].attempt = ZeroAttempt

\* the type a call asks NewCustomTxAttempt for
TypeOf(c) ==
  CASE c.op = "NewTxAttempt" -> IF feeConfig.EIP1559DynamicFees THEN 2 ELSE 0
    [] c.op = "NewBumpTxAttempt" -> c.previousAttempt.TxType
    [] OTHER -> c.txType
\* the quote lacks a fee field that an attempt of the type needs
MissingField(fee, txType) ==
  \/ txType = 0 /\ fee.Legacy = Nil
  \/ txType = 2 /\ (fee.DynamicFeeCap = Nil \/ fee.DynamicTipCap = Nil)

\* C27: through NewCustomTxAttempt, NewTxAttempt, NewTxAttemptWithType and
\* NewBumpTxAttempt no validation ever ends in the panic 'gas price
\* missing', 'gas tip cap missing' or 'gas fee cap missing': for every quote
\* and type, a quote that lacks a fee field of the type is answered with an
\* error value, and no validation runs on it.
C27_MissingFieldNeverPanics ==
  \A w \in AllWorkers :
    call[w].op \in ViaEstimator \cup {"NewCustomTxAttempt"} =>
      /\ pc[w] # "panicked"
      /\ \A i \in DOMAIN validations[w] : ~IsPanic(validations[w][i])
      /\ ( /\ pc[w] \in {"SignTx", "done"}
           /\ call[w].est.err = NoErr
           /\ MissingField(QuoteOf(call[w]), TypeOf(call[w])) ) =>
           /\ Returned(w)
           /\ ret[w].err # NoErr /\ ~IsPanic(ret[w].err)
           /\ validations[w] = <<>>

\* NewTxAttemptWithType of type 2 got a quote with a fee cap and no tip cap
C27_Witness ==
  \E w \in AllWorkers :
    /\ Returned(w) /\ call[w].op = "NewTxAttemptWithType" /\ call[w].txType = 2
    /\ call[w].est.err = NoErr
    /\ call[w].est.fee.DynamicFeeCap # Nil /\ call[w].est.fee.DynamicTipCap = Nil
    /\ ret[w].err # NoErr /\ validations[w] = <<>>

\* ------------------------------------------ FunctionsCoordinator: claims

Paying(f) == f.resultCode \in {FULFILLED, USER_CALLBACK_ERROR}

\* what the fulfilments [i ..] of a report owe the transmitter
RECURSIVE Reimbursement(_, _)
Reimbursement(fulfilments, i) ==
  IF i > Len(fulfilments) THEN 0
  ELSE (IF Paying(fulfilments[i])
        THEN fulfilments[i].gasOverheadJuels + fulfilments[i].callbackCostJuels
        ELSE 0) + Reimbursement(fulfilments, i + 1)

\* C28: a report that is accepted leaves its transmitter with the balance it
\* held plus gasOverheadJuels + callbackCostJuels of every fulfilment that
\* was FULFILLED or USER_CALLBACK_ERROR, and no transaction other than
\* oracleWithdraw and oracleWithdrawAll lowers a withdrawable balance.
C28_ReimbursementAdds ==
  [][ /\ (lastTx'.op = "transmit" /\ lastTx'.revert = "") =>
           coordinator'.s_withdrawableTokens[lastTx'.sender] =
             coordinator.s_withdrawableTokens[lastTx'.sender]
               + Reimbursement(lastTx'.args.fulfilments, 1)
      /\ lastTx'.op \notin {"oracleWithdraw", "oracleWithdrawAll"} =>
           \A a \in Accounts :
             coordinator'.s_withdrawableTokens[a] >= coordinator.s_withdrawableTokens[a]
    ]_vars

\* the call tx, by a sender it accepts, runs _disperseFeePool on storage c
Dispersing(tx, c) ==
  \/ tx.op = "oracleWithdraw"
  \/ tx.op = "oracleWithdrawAll" /\ tx.sender = Owner
  \/ tx.op = "setConfig" /\ tx.sender = Owner /\ Len(c.s_transmitters) > 0

\* the juels the payments [i ..] hand to account a
RECURSIVE PaidTo(_, _, _)
PaidTo(paid, a, i) ==
  IF i > Len(paid) THEN 0
  ELSE (IF paid[i].to = a THEN paid[i].amount ELSE 0) + PaidTo(paid, a, i + 1)

\* C29: a call that disperses the fee pool among n > 0 transmitters credits
\* each of them floor(pool / n) and leaves the remainder pool mod n, less than
\* n, in the pool, so that the withdrawable balances, the pool and what the
\* call pays out add up to the balances and the pool before it; with an empty
\* pool no balance is credited; with fees in the pool and no transmitter set
\* the call reverts with NoTransmittersSet and the storage stays as it was.
C29_DisperseConservesJuels ==
  [][ Dispersing(lastTx', coordinator) =>
        LET pool == coordinator.s_feePool
            transmitters == coordinator.s_transmitters
            n == Len(transmitters)
            balance == coordinator.s_withdrawableTokens
            after == coordinator'.s_withdrawableTokens
            paid == lastTx'.paid
        IN /\ (lastTx'.revert = "NoTransmittersSet") = (pool > 0 /\ n = 0)
           /\ lastTx'.revert # "" => coordinator' = coordinator
           /\ (lastTx'.revert = "" /\ pool = 0) =>
                /\ coordinator'.s_feePool = 0
                /\ \A a \in Accounts : after[a] + PaidTo(paid, a, 1) = balance[a]
           /\ (lastTx'.revert = "" /\ n > 0) =>
                /\ coordinator'.s_feePool = pool % n
                /\ coordinator'.s_feePool < n
                /\ \A a \in Accounts :
                     after[a] + PaidTo(paid, a, 1) =
                       balance[a] + (pool \div n) * TimesIn(a, transmitters)
                /\ Total(coordinator') + PaidTo(paid, "t1", 1) + PaidTo(paid, "t2", 1)
                     = Total(coordinator)
    ]_vars

\* oracleWithdrawAll has dispersed an odd pool between two transmitters and
\* paid both of them, the odd juel is left in the pool
C29_Witness ==
  /\ lastTx.op = "oracleWithdrawAll" /\ lastTx.revert = ""
  /\ coordinator.s_transmitters = <<"t1", "t2">>
  /\ Len(lastTx.paid) = 2
  /\ coordinator.s_feePool = 1

\* some fulfilment of the report is for request id and ends its billing
PaysFor(fulfilments, id) ==
  \E i \in DOMAIN fulfilments : fulfilments[i].requestId = id /\ Paying(fulfilments[i])

\* C30: a stored commitment is removed only by an accepted report with a
\* fulfilment for its request id that is FULFILLED or USER_CALLBACK_ERROR, or
\* by deleteCommitment of that id called by the router; startRequest that
\* does not revert stores the commitment; a report whose fulfilments all have
\* other results leaves the commitments, the withdrawable balances and the
\* fee pool as they were; deleteCommitment by anyone but the router reverts
\* and changes nothing.
C30_CommitmentKeptUntilBilled ==
  [][ /\ \A id \in RequestIds :
           ( /\ coordinator.s_requestCommitments[id] # Nil
             /\ coordinator'.s_requestCommitments[id] # coordinator.s_requestCommitments[id] ) =>
             /\ lastTx'.revert = ""
             /\ \/ lastTx'.op = "transmit" /\ PaysFor(lastTx'.args.fulfilments, id)
                \/ /\ lastTx'.op = "deleteCommitment"
                   /\ lastTx'.sender = Router /\ lastTx'.args.requestId = id
      /\ (lastTx'.op = "startRequest" /\ lastTx'.revert = "") =>
           \E id \in RequestIds :
             /\ coordinator'.s_requestCommitments[id] # Nil
             /\ Val(coordinator'.s_requestCommitments[id]).requestId = id
             /\ id.nonce = lastTx'.args.request.initiatedRequests + 1
      /\ ( /\ lastTx'.op = "transmit"
           /\ \A id \in RequestIds : ~PaysFor(lastTx'.args.fulfilments, id) ) =>
           coordinator' = coordinator
      /\ (lastTx'.op = "deleteCommitment" /\ lastTx'.sender # Router) =>
           /\ lastTx'.revert = "OnlyCallableByRouter"
           /\ coordinator' = coordinator
    ]_vars

\* a transmitter has reported INVALID_REQUEST_ID for a request whose
\* commitment is stored, and the commitment is still there
C30_Witness ==
  /\ lastTx.op = "transmit" /\ lastTx.revert = ""
  /\ Len(lastTx.args.fulfilments) = 1
  /\ lastTx.args.fulfilments[1].resultCode = INVALID_REQUEST_ID
  /\ coordinator.s_requestCommitments[lastTx.args.fulfilments[1].requestId] # Nil

====
